---- MODULE Spec2Model ----
(***************************************************************************)
(* A model of the permutation-invariant assignment solver                  *)
(* (_permutation_loss of ESPnetFrontendModel and ESPnetEnhancementModel)   *)
(* and of the configuration dispatch of DNN_Beamformer.                    *)
(*                                                                         *)
(* Signals are tensors with a leading batch axis.  A signal is modelled    *)
(* with one time-frequency bin per batch element, so a signal is a         *)
(* function from the batch index to one sample and the per-example mean    *)
(* over the (T, F) axes of the criterion is the value at that bin.         *)
(* Losses are rationals [num, den]: the divisions of the code (the mean    *)
(* over speakers, the mean over the batch) are kept as exact fractions.    *)
(***************************************************************************)
EXTENDS Integers, Sequences, FiniteSets, Bags, TLC

VARIABLES
    impl,        \* the class whose _permutation_loss is called
    ref,         \* ref: list of num_spk reference signals, each (batch)
    inf,         \* inf: list of num_spk hypothesis signals, each (batch)
    perm,        \* the perm argument of the last call
    use_pit,     \* the use_pit argument of the last call
    ret,         \* what the last call returned: (loss.mean(), perm)
    prev,        \* what an earlier call on related inputs returned
    ncall,       \* the number of solver calls made so far
    first_min,   \* whether this build's torch.min returns the first minimum
    pc,          \* position of the caller
    arg_type,    \* the beamformer_type given to DNN_Beamformer.__init__
    data,        \* the multichannel signal given to forward
    degenerate,  \* whether this signal's covariances give non-finite weights
    last,        \* the forward call before this one, if given the same inputs
    bf,          \* the DNN_Beamformer instance: its configuration fields
    rejected,    \* whether some construction raised
    raised,      \* the exception in flight, where it was raised
    masks,       \* masks: what the mask estimator returned in this call
    psd_speeches,\* psd_speech (nmask == 2) or psd_speeches
    psd_n,       \* the interference covariance, or the list of them
    it,          \* the loop variable i of the multi-speaker loop
    enhanced,    \* enhanced: one signal, or the list built so far
    ncalls,      \* forward calls returned by this instance
    bpc,         \* position in __init__ / forward
    em,          \* the ESPnet model instance: its class and configuration
    kwargs,      \* the keys of the batch given to the model's forward
    mask_pre,    \* mask_pre: the masks the network predicted, by key
    noise_ref,   \* noise_ref: None, the stacked tensor, or the unbound list
    loss_terms,  \* the loss terms computed so far in this call
    exc,         \* the exception the model's forward raised, and at which term
    loss_func,   \* the criterion of the TF-domain loss of the speech
    fwd_out,     \* what forward returned: the loss by its terms, and stats
    fpc,         \* position in the model's forward
    nsample,     \* pad_waveform: the number of samples of the waveform
    window,      \* pad_waveform: window
    stride,      \* pad_waveform: stride
    padded,      \* pad_waveform: the number of samples of the returned input
    pad_rest,    \* pad_waveform: the returned rest
    input,       \* split_segment: the sequence (B = N = 1)
    segment_size,\* split_segment: segment_size
    segments,    \* split_segment: the returned segments
    seg_rest,    \* split_segment: the returned rest
    output,      \* merge_segment: the returned sequence
    lpc,         \* which function of long_seq_model returned last
    mclass,      \* the class whose _create_mask_label is called
    mask_type,   \* _create_mask_label: mask_type
    mix_spec,    \* _create_mask_label: mix_spec at one TF bin
    ref_spec,    \* _create_mask_label: ref_spec at one TF bin
    mask_label,  \* _create_mask_label: what it returned or raised
    mpc,         \* whether _create_mask_label has returned
    job,         \* the model whose forward computes a chain of losses
    env,         \* the locals ctx_perm, perm and perm_n of that forward
    called       \* the _permutation_loss calls of that forward, in order

\* the state of the permutation solver and its callers
svars == <<impl, ref, inf, perm, use_pit, ret, prev, ncall, first_min, pc>>

\* the state of the beamformer
bvars == <<arg_type, data, degenerate, last, bf, rejected, raised, masks,
           psd_speeches, psd_n, it, enhanced, ncalls, bpc>>

\* the state of the model's forward
fvars == <<em, kwargs, mask_pre, noise_ref, loss_terms, exc, loss_func,
           fwd_out, fpc>>

\* the state of the functions of long_seq_model
lvars == <<nsample, window, stride, padded, pad_rest, input, segment_size,
           segments, seg_rest, output, lpc>>

\* the state of _create_mask_label
mvars == <<mclass, mask_type, mix_spec, ref_spec, mask_label, mpc>>

\* the state of a chain of losses
cvars == <<job, env, called>>

vars == <<svars, bvars, fvars, lvars, mvars, cvars>>

----------------------------------------------------------------------------
(* Bounds of the model. *)

\* the largest number of speakers, len(ref)
MaxSpk == 3
\* the largest batch size
MaxBatch == 2
\* the largest number of cells num_spk * batch of one list of signals
MaxCells == 4
\* the largest sample value of a hypothesis signal
MaxVal == 2
\* the largest number of masks, bnmask: speakers plus one noise mask
MaxMask == 3
\* the number of microphone channels of the data
MaxChan == 2
\* the largest number of forward calls on one instance
MaxCalls == 3
\* the number of distinct input signals
MaxData == 2

\* long_seq_model: the largest window and stride, number of samples,
\* half segment size and sequence length
MaxWindow == 4
MaxSample == 8
MaxHalf == 2
MaxLen == 5

\* _create_mask_label: the largest number of references and the largest
\* magnitude of a spectrum at the bin
MaxRefs == 2
MaxAmp == 2

----------------------------------------------------------------------------
(* Values. *)

\* Python's None
None == [kind |-> "None"]

\* a tensor of shape (batch) holding indices
Tensor(t) == [kind |-> "tensor", val |-> t]

\* a Python list
List(l) == [kind |-> "list", val |-> l]

\* a Python str
Str(x) == [kind |-> "str", val |-> x]

\* the values of an estimated signal
Estimates == 0..MaxVal

\* a fraction num / den, den > 0
Rat(n, d) == [num |-> n, den |-> d]

RatEq(a, b) == a.num * b.den = b.num * a.den

RatLess(a, b) == a.num * b.den < b.num * a.den

RatLeq(a, b) == a.num * b.den <= b.num * a.den

RatAdd(a, b) == Rat(a.num * b.den + b.num * a.den, a.den * b.den)

RECURSIVE SumTo(_, _)
\* f[0] + ... + f[n-1] over integers
SumTo(f, n) == IF n = 0 THEN 0 ELSE SumTo(f, n - 1) + f[n - 1]

RECURSIVE RatSumTo(_, _)
\* f[0] + ... + f[n-1] over fractions
RatSumTo(f, n) == IF n = 0 THEN Rat(0, 1) ELSE RatAdd(RatSumTo(f, n - 1), f[n - 1])

\* number of speakers of a list of signals
NumSpk(r) == Cardinality(DOMAIN r)

\* batch size of a list of signals
BatchOf(r) == Cardinality(DOMAIN r[0])

----------------------------------------------------------------------------
(* itertools.permutations(range(n)): tuples in lexicographic order. *)

\* range(n) as a tuple
range(n) == [i \in 1..n |-> i - 1]

Remove(items, i) == SubSeq(items, 1, i - 1) \o SubSeq(items, i + 1, Len(items))

RECURSIVE PermsOf(_)
RECURSIVE PermsFrom(_, _)
\* the permutations of the tuple items, in the order itertools yields them
PermsOf(items) ==
    IF Len(items) = 0 THEN << <<>> >> ELSE PermsFrom(items, 1)

\* those permutations of items whose first element is items[i] or a later one
PermsFrom(items, i) ==
    IF i > Len(items) THEN <<>>
    ELSE LET rest == PermsOf(Remove(items, i))
         IN  [j \in 1..Len(rest) |-> <<items[i]>> \o rest[j]]
                 \o PermsFrom(items, i + 1)

\* a fault: itertools.product in place of permutations, every tuple of
\* n sources in lexicographic order
product(n) ==
    IF n = 0 THEN << <<>> >>
    ELSE [j \in 1..(n ^ n) |->
            [q \in 1..n |-> ((j - 1) \div (n ^ (n - q))) % n]]

\* permutations(range(n)) for every n the model uses
PermTable == [n \in 0..(MaxSpk + 1) |-> PermsOf(range(n))]

\* a fault: the enumeration starts after the identity order
permutations_after_first(n) ==
    IF n <= 1 THEN PermTable[n] ELSE Tail(PermTable[n])

\* permutations(range(n))
permutations(n) == PermTable[n]

----------------------------------------------------------------------------
(* The criterion and the solver. *)

\* tf_mse_loss: ((ref - inf) ** 2).mean(dim=[1, 2]), one value per example
tf_mse_loss(r, i) == [b \in DOMAIN r |-> (r[b] - i[b]) * (r[b] - i[b])]

\* a fault: the permutation applied to the references, not the estimates
pair_loss_transposed(r, i, permutation) ==
    [b \in DOMAIN r[0] |->
        Rat(SumTo([s \in 0..(Len(permutation) - 1) |->
                      tf_mse_loss(r[permutation[s + 1]], i[s])[b]],
                  Len(permutation)),
            Len(permutation))]

\* pair_loss: sum([criterion(ref[s], inf[t]) for s, t in enumerate(permutation)])
\*            / len(permutation), a tensor of shape (batch)
pair_loss(r, i, permutation) ==
    [b \in DOMAIN r[0] |->
        Rat(SumTo([s \in 0..(Len(permutation) - 1) |->
                      tf_mse_loss(r[s], i[permutation[s + 1]])[b]],
                  Len(permutation)),
            Len(permutation))]

\* torch.stack([pair_loss(p) for p in permutations(range(num_spk))], dim=1):
\* losses[b][j] is the loss of the j-th permutation on example b
stack_losses(r, i) ==
    LET ps == permutations(NumSpk(r))
    IN  [b \in DOMAIN r[0] |->
            [j \in 0..(Len(ps) - 1) |-> pair_loss(r, i, ps[j + 1])[b]]]

SetMin(S) == CHOOSE x \in S : \A y \in S : x <= y

SetMax(S) == CHOOSE x \in S : \A y \in S : x >= y

\* a fault: the indices of a row that hold its maximum
MaxIndices(row) ==
    {j \in DOMAIN row : \A k \in DOMAIN row : RatLeq(row[k], row[j])}

\* the indices of a row that hold its minimum
MinIndices(row) ==
    {j \in DOMAIN row : \A k \in DOMAIN row : RatLeq(row[j], row[k])}

\* a fault: the tie-break changes from one call to the next
TieByCall == ncall % 2 = 0

\* whether torch.min breaks a tie towards the first minimum (else the last)
TieFirst == first_min

\* a fault: one index for the whole batch, the minimum of the summed rows
batch_min(losses) ==
    LET n == Cardinality(DOMAIN losses)
        total == [j \in DOMAIN losses[0] |->
                     RatSumTo([b \in DOMAIN losses |-> losses[b][j]], n)]
        best == SetMin(MinIndices(total))
    IN  [values |-> [b \in DOMAIN losses |-> losses[b][best]],
         indices |-> [b \in DOMAIN losses |-> best]]

\* torch.min(losses, dim=1): per row the minimum and one index holding it
torch_min(losses) ==
    LET idx == [b \in DOMAIN losses |->
                   IF TieFirst THEN SetMin(MinIndices(losses[b]))
                   ELSE SetMax(MinIndices(losses[b]))]
    IN  [values |-> [b \in DOMAIN losses |-> losses[b][idx[b]]],
         indices |-> idx]

\* a fault: loss.sum() over the batch
batch_sum(loss) == RatSumTo(loss, Cardinality(DOMAIN loss))

\* loss.mean() over the batch
mean(loss) ==
    LET n == Cardinality(DOMAIN loss)
        s == RatSumTo(loss, n)
    IN  Rat(s.num, s.den * n)

\* a fault: the search runs whether or not a perm is given
AlwaysSearch(r, i, p) ==
    LET m == torch_min(stack_losses(r, i))
    IN  [loss |-> mean(m.values), perm |-> Tensor(m.indices)]

\* ESPnetFrontendModel._permutation_loss(ref, inf, criterion, perm)
FrontendPermutationLoss(r, i, p) ==
    LET losses == stack_losses(r, i)
    IN  IF p = None
        THEN LET m == torch_min(losses)
             IN  [loss |-> mean(m.values), perm |-> Tensor(m.indices)]
        ELSE [loss |-> mean([b \in DOMAIN losses |-> losses[b][p.val[b]]]),
              perm |-> p]

\* a fault: use_pit is not consulted
IgnoresUsePit(r, i, p, pit) == FrontendPermutationLoss(r, i, p)

\* ESPnetEnhancementModel._permutation_loss(ref, inf, criterion, perm, use_pit)
EnhPermutationLoss(r, i, p, pit) ==
    IF pit
    THEN LET losses == stack_losses(r, i)
         IN  IF p = None
             THEN LET m == torch_min(losses)
                  IN  [loss |-> mean(m.values), perm |-> Tensor(m.indices)]
             ELSE [loss |-> mean([b \in DOMAIN losses |-> losses[b][p.val[b]]]),
                   perm |-> p]
    ELSE [loss |-> mean(pair_loss(r, i, range(NumSpk(r)))),
          perm |-> List(range(NumSpk(r)))]

\* the call of either class
PermutationLoss(c, r, i, p, pit) ==
    IF c = "frontend" THEN FrontendPermutationLoss(r, i, p)
    ELSE EnhPermutationLoss(r, i, p, pit)

----------------------------------------------------------------------------
(* The callers. *)

\* no exception is in flight
NoError == [at |-> "", err |-> "", msg |-> ""]

\* no DNN_Beamformer has been constructed
NoBeamformer ==
    /\ arg_type = "none"
    /\ data = 0
    /\ degenerate = FALSE
    /\ last = None
    /\ bf = None
    /\ rejected = FALSE
    /\ raised = NoError
    /\ masks = <<>>
    /\ psd_speeches = <<>>
    /\ psd_n = None
    /\ it = 0
    /\ enhanced = None
    /\ ncalls = 0
    /\ bpc = "new"

\* no ESPnet model has been constructed
NoModel ==
    /\ em = None
    /\ kwargs = {}
    /\ mask_pre = None
    /\ noise_ref = None
    /\ loss_terms = <<>>
    /\ exc = NoError
    /\ loss_func = ""
    /\ fwd_out = None
    /\ fpc = "new"

\* no function of long_seq_model has been called
NoSegments ==
    /\ nsample = 0
    /\ window = 0
    /\ stride = 0
    /\ padded = 0
    /\ pad_rest = 0
    /\ input = <<>>
    /\ segment_size = 0
    /\ segments = <<>>
    /\ seg_rest = 0
    /\ output = <<>>
    /\ lpc = "idle"

\* _create_mask_label has not been called
NoMaskLabel ==
    /\ mclass = ""
    /\ mask_type = ""
    /\ mix_spec = 0
    /\ ref_spec = <<>>
    /\ mask_label = None
    /\ mpc = "idle"

\* no chain of losses has begun
NoChain ==
    /\ job = None
    /\ env = None
    /\ called = <<>>

\* everything but the solver, the beamformer and the model's forward at rest
NoOthers == NoSegments /\ NoMaskLabel /\ NoChain

Factorial(n) == Len(permutations(n))

\* the index tensors a caller passes as perm: example b gets index (j + b)
\* modulo the number of permutations, for every j
GivenPerms(k, bsz) ==
    {Tensor([b \in 0..(bsz - 1) |-> (j + b) % Factorial(k)]) :
        j \in 0..(Factorial(k) - 1)}

\* the reference signals of one example: the k speakers hold the distinct
\* constants 0..k-1, in ascending or in descending order of the speaker
RefPatterns(k) == {[s \in 0..(k - 1) |-> s], [s \in 0..(k - 1) |-> k - 1 - s]}

\* the lists of k reference signals over a batch of bsz examples
RefLists(k, bsz) ==
    {[s \in 0..(k - 1) |-> [b \in 0..(bsz - 1) |-> pat[b][s]]] :
        pat \in [0..(bsz - 1) -> RefPatterns(k)]}

\* the lists of k hypothesis signals over a batch of bsz examples
InfLists(k, bsz) == [0..(k - 1) -> [0..(bsz - 1) -> Estimates]]

\* the shapes (num_spk, batch) of the model
Shapes ==
    {sh \in (1..MaxSpk) \X (1..MaxBatch) : sh[1] * sh[2] <= MaxCells}

Init ==
    /\ \E sh \in Shapes :
         /\ ref \in RefLists(sh[1], sh[2])
         /\ inf \in InfLists(sh[1], sh[2])
    /\ impl = "none"
    /\ perm = None
    /\ use_pit = TRUE
    /\ ret = None
    /\ prev = None
    /\ ncall = 0
    /\ first_min \in BOOLEAN
    /\ pc = "start"
    /\ NoBeamformer
    /\ NoModel
    /\ NoOthers

\* ESPnetFrontendModel._permutation_loss(ref, inf, criterion, perm=p)
FrontendCall ==
    /\ pc = "start"
    /\ \E p \in {None} \cup GivenPerms(NumSpk(ref), BatchOf(ref)) :
         /\ perm' = p
         /\ ret' = FrontendPermutationLoss(ref, inf, p)
    /\ impl' = "frontend"
    /\ use_pit' = TRUE
    /\ ncall' = ncall + 1
    /\ pc' = "returned"
    /\ UNCHANGED <<ref, inf, prev, first_min, bvars, fvars, lvars, mvars, cvars>>

\* ESPnetEnhancementModel._permutation_loss(ref, inf, criterion, perm=p, use_pit=pit)
EnhCall ==
    /\ pc = "start"
    /\ \E p \in {None} \cup GivenPerms(NumSpk(ref), BatchOf(ref)), pit \in BOOLEAN :
         /\ perm' = p
         /\ use_pit' = pit
         /\ ret' = EnhPermutationLoss(ref, inf, p, pit)
    /\ impl' = "enh"
    /\ ncall' = ncall + 1
    /\ pc' = "returned"
    /\ UNCHANGED <<ref, inf, prev, first_min, bvars, fvars, lvars, mvars, cvars>>

Next ==
    \/ FrontendCall
    \/ EnhCall

Spec == Init /\ [][Next]_vars

----------------------------------------------------------------------------
(* Two calls in a row: the second on the same inputs, on reordered         *)
(* hypotheses, or on a batch that differs outside one element.             *)

\* the hypotheses in the order sigma: the t-th is the old sigma[t]-th
Reorder(i, sigma) == [t \in DOMAIN i |-> i[sigma[t + 1]]]

\* a search, perm=None with PIT enabled, by either class
SearchCall ==
    /\ pc = "start"
    /\ \E c \in {"frontend", "enh"} :
         /\ impl' = c
         /\ ret' = PermutationLoss(c, ref, inf, None, TRUE)
    /\ perm' = None
    /\ use_pit' = TRUE
    /\ ncall' = ncall + 1
    /\ pc' = "returned"
    /\ UNCHANGED <<ref, inf, prev, first_min, bvars, fvars, lvars, mvars, cvars>>

\* the same call once more on identical inputs
RerunCall ==
    /\ pc = "returned"
    /\ prev' = [how |-> "rerun", ret |-> ret]
    /\ ret' = PermutationLoss(impl, ref, inf, perm, use_pit)
    /\ ncall' = ncall + 1
    /\ pc' = "compared"
    /\ UNCHANGED <<impl, ref, inf, perm, use_pit, first_min, bvars, fvars, lvars, mvars, cvars>>

\* the same search with the hypotheses put in the order sigma
ReorderCall ==
    /\ pc = "returned"
    /\ \E j \in 1..Len(permutations(NumSpk(inf))) :
         LET sigma == permutations(NumSpk(inf))[j]
         IN  /\ inf' = Reorder(inf, sigma)
             /\ prev' = [how |-> "reorder", sigma |-> sigma, ret |-> ret]
             /\ ret' = PermutationLoss(impl, ref, Reorder(inf, sigma), perm, use_pit)
    /\ ncall' = ncall + 1
    /\ pc' = "compared"
    /\ UNCHANGED <<impl, ref, perm, use_pit, first_min, bvars, fvars, lvars, mvars, cvars>>

\* the signals r with the examples other than e replaced by those of x
KeepOnly(r, e, x) ==
    [s \in DOMAIN r |-> [b \in DOMAIN r[s] |-> IF b = e THEN r[s][e] ELSE x[s][b]]]

\* the same search on a batch that keeps element e and may differ elsewhere
PerturbCall ==
    /\ pc = "returned"
    /\ BatchOf(ref) >= 2
    /\ \E e \in DOMAIN ref[0] :
         \E pat \in [DOMAIN ref[0] \ {e} -> RefPatterns(NumSpk(ref))],
            ix \in [DOMAIN inf -> [DOMAIN inf[0] \ {e} -> Estimates]] :
              LET rx == [s \in DOMAIN ref |-> [b \in DOMAIN pat |-> pat[b][s]]]
                  r2 == KeepOnly(ref, e, rx)
                  i2 == KeepOnly(inf, e, ix)
              IN  /\ ref' = r2
                  /\ inf' = i2
                  /\ prev' = [how |-> "perturb", elem |-> e,
                              perm_e |-> ret.perm.val[e],
                              moved |-> (r2 # ref \/ i2 # inf)]
                  /\ ret' = PermutationLoss(impl, r2, i2, perm, use_pit)
    /\ ncall' = ncall + 1
    /\ pc' = "compared"
    /\ UNCHANGED <<impl, perm, use_pit, first_min, bvars, fvars, lvars, mvars, cvars>>

NextRuns ==
    \/ SearchCall
    \/ RerunCall
    \/ ReorderCall
    \/ PerturbCall

SpecRuns == Init /\ [][NextRuns]_vars

----------------------------------------------------------------------------
(* DNN_Beamformer.  Tensors are symbolic: a covariance is a bag of the      *)
(* terms that were added up to form it, a term naming the estimate (the     *)
(* mask-weighted PSD, the observed-signal covariance, the power-weighted    *)
(* covariance of WPD), the mask it used, the signal it was taken from and   *)
(* the weights of the frames.  A mask is its position in the estimator's    *)
(* output and whether it is all-zero at some (batch, frequency).            *)

\* the types some caller may ask for; the last two have no filter
BeamformerTypes == {"mvdr", "mpdr", "wpd", "gev", "mwf"}

\* ref_channel: negative selects the attention reference
RefChannels == (0 - 1)..MaxChan

\* the defaults of __init__ for the WPD taps and delay
DefaultBtaps == 5
DefaultBdelay == 3

\* raise ValueError("Not supporting beamformer_type=...")
NotSupporting(where) ==
    [at |-> where, err |-> "ValueError",
     msg |-> "Not supporting beamformer_type"]

\* a failed assert
AssertionError(where) == [at |-> where, err |-> "AssertionError", msg |-> ""]

\* indexing a channel the signal does not have
IndexError(where) == [at |-> where, err |-> "IndexError", msg |-> ""]

\* a fault: __init__ lets through a type forward has no filter for
InitAcceptsGev(beamformer_type) ==
    beamformer_type \in {"mvdr", "mpdr", "wpd", "gev"}

\* the test of __init__: beamformer_type in ('mvdr', 'mpdr', 'wpd')
InitAccepts(beamformer_type) == beamformer_type \in {"mvdr", "mpdr", "wpd"}

\* a fault: the number of masks is not compared with nmask
MaskCountAny(n) == TRUE

\* assert self.nmask == len(masks)
MaskCountOk(n) == bf.nmask = n

\* the k-th mask of the estimator; z is the position of the all-zero one
Mask(k, z) == [id |-> k, zero |-> (k = z)]

\* the frame weights of the covariance estimator: the mask over its sum,
\* and the unweighted default where the mask sums to zero
mask_weight(mask) == IF mask.zero THEN "uniform" ELSE "mask"

\* get_power_spectral_density_matrix(data, mask)
get_power_spectral_density_matrix(d, mask) ==
    SetToBag({[op |-> "psd", mask |-> mask.id, data |-> d,
               weight |-> mask_weight(mask)]})

\* FC.einsum('...ct,...et->...ce', [data, data.conj()])
observed_covariance(d) ==
    SetToBag({[op |-> "obs", mask |-> 0, data |-> d, weight |-> "uniform"]})

\* a fault: 1 / power_speech without the clamp
inverse_power_unclamped(mask) == IF mask.zero THEN "nan" ELSE "inverse_power"

\* 1 / torch.clamp((|data|^2 * mask).mean(dim=-2), min=self.eps): where the
\* mask is zero the power is zero, the clamp makes it eps and every frame
\* gets the weight 1 / eps
inverse_power(mask) == IF mask.zero THEN "uniform" ELSE "inverse_power"

\* get_covariances(data, inverse_power, self.bdelay, self.btaps)
get_covariances(d, mask) ==
    SetToBag({[op |-> "cov", mask |-> mask.id, data |-> d,
               weight |-> inverse_power(mask)]})

\* a fault: the other speakers are left out of the sum
sum_nothing(psds) == EmptyBag

\* sum(psds): Python's sum, from zero
RECURSIVE sum(_)
sum(psds) ==
    IF Len(psds) = 0 THEN EmptyBag ELSE Head(psds) (+) sum(Tail(psds))

\* a fault: the popped element is put back at the end
InsertLast(items, i, x) == Append(items, x)

\* a fault: the popped element is put back at the front
InsertFront(items, i, x) == <<x>> \o items

\* list.insert(i, x) at a 0-based position
Insert(items, i, x) ==
    SubSeq(items, 1, i) \o <<x>> \o SubSeq(items, i + 1, Len(items))

\* a fault: the vector is created with torch.ones
onehot_of_ones(c, n) == [ch \in 0..(n - 1) |-> 1]

\* u = torch.zeros(..., C); u[..., self.ref_channel].fill_(1)
onehot(c, n) == [ch \in 0..(n - 1) |-> IF ch = c THEN 1 ELSE 0]

\* the reference vector of apply_beamforming
reference_vector(psd_speech) ==
    IF bf.ref_channel < 0
    THEN [mode |-> "attention", psd |-> psd_speech, vec |-> <<>>]
    ELSE [mode |-> "onehot", psd |-> EmptyBag,
          vec |-> onehot(bf.ref_channel, MaxChan)]

\* a fault: every type is sent through get_mvdr_vector
apply_beamforming_shared(d, psd_speech, psdn, beamformer_type) ==
    IF bf.ref_channel >= MaxChan
    THEN [raises |-> IndexError("forward")]
    ELSE [raises |-> NoError,
          enhanced |-> [design |-> "get_mvdr_vector",
                        apply |-> "apply_beamforming_vector",
                        psd_speech |-> psd_speech, psd_n |-> psdn,
                        u |-> reference_vector(psd_speech), data |-> d,
                        bdelay |-> 0, btaps |-> 0,
                        finite |-> ~degenerate]]

\* the inner function apply_beamforming of forward: the enhanced signal is
\* the filter applied to the data, finite exactly when the weights are
apply_beamforming(d, psd_speech, psdn, beamformer_type) ==
    IF bf.ref_channel >= MaxChan
    THEN [raises |-> IndexError("forward")]
    ELSE IF beamformer_type \in {"mpdr", "mvdr"}
    THEN [raises |-> NoError,
          enhanced |-> [design |-> "get_mvdr_vector",
                        apply |-> "apply_beamforming_vector",
                        psd_speech |-> psd_speech, psd_n |-> psdn,
                        u |-> reference_vector(psd_speech), data |-> d,
                        bdelay |-> 0, btaps |-> 0,
                        finite |-> ~degenerate]]
    ELSE IF beamformer_type = "wpd"
    THEN [raises |-> NoError,
          enhanced |-> [design |-> "get_WPD_filter_v2",
                        apply |-> "perform_WPD_filtering",
                        psd_speech |-> psd_speech, psd_n |-> psdn,
                        u |-> reference_vector(psd_speech), data |-> d,
                        bdelay |-> bf.bdelay, btaps |-> bf.btaps,
                        finite |-> ~degenerate]]
    ELSE [raises |-> NotSupporting("forward")]

\* a fault: mvdr takes the PSD of the speech mask as its noise PSD
NoiseCovariance2OfSpeech(d, m) ==
    IF bf.beamformer_type = "mvdr"
    THEN [raises |-> NoError,
          psd_n |-> Tensor(get_power_spectral_density_matrix(d, m[1]))]
    ELSE IF bf.beamformer_type = "mpdr"
    THEN [raises |-> NoError, psd_n |-> Tensor(observed_covariance(d))]
    ELSE IF bf.beamformer_type = "wpd"
    THEN [raises |-> NoError, psd_n |-> Tensor(get_covariances(d, m[1]))]
    ELSE [raises |-> NotSupporting("forward")]

\* the interference covariance of the 2-mask branch
NoiseCovariance2(d, m) ==
    IF bf.beamformer_type = "mvdr"
    THEN [raises |-> NoError,
          psd_n |-> Tensor(get_power_spectral_density_matrix(d, m[2]))]
    ELSE IF bf.beamformer_type = "mpdr"
    THEN [raises |-> NoError, psd_n |-> Tensor(observed_covariance(d))]
    ELSE IF bf.beamformer_type = "wpd"
    THEN [raises |-> NoError, psd_n |-> Tensor(get_covariances(d, m[1]))]
    ELSE [raises |-> NotSupporting("forward")]

\* a fault: mpdr is given the PSD of the noise mask, as mvdr is
NoiseCovarianceMultiMasked(d, m) ==
    IF bf.beamformer_type \in {"mvdr", "mpdr"}
    THEN [raises |-> NoError,
          psd_n |-> Tensor(get_power_spectral_density_matrix(d, m[Len(m)]))]
    ELSE [raises |-> NoError,
          psd_n |-> List([k \in 1..(Len(m) - 1) |-> get_covariances(d, m[k])])]

\* the interference covariance of the multi-speaker branch
NoiseCovarianceMulti(d, m) ==
    IF bf.beamformer_type = "mvdr"
    THEN [raises |-> NoError,
          psd_n |-> Tensor(get_power_spectral_density_matrix(d, m[Len(m)]))]
    ELSE IF bf.beamformer_type = "mpdr"
    THEN [raises |-> NoError, psd_n |-> Tensor(observed_covariance(d))]
    ELSE IF bf.beamformer_type = "wpd"
    THEN [raises |-> NoError,
          psd_n |-> List([k \in 1..(Len(m) - 1) |-> get_covariances(d, m[k])])]
    ELSE [raises |-> NotSupporting("forward")]

\* a fault: the list of enhanced signals is kept from call to call
kept_list ==
    IF last # None /\ last.enhanced.kind = "list"
    THEN last.enhanced.val ELSE <<>>

\* enhanced = []
empty_list == <<>>

\* DNN_Beamformer(..., bnmask, ref_channel, beamformer_type)
Construct ==
    /\ bpc \in {"new", "rejected"}
    /\ \E bt \in BeamformerTypes, nm \in 1..MaxMask, rc \in RefChannels :
        /\ arg_type' = bt
        /\ IF ~InitAccepts(bt)
           THEN /\ raised' = NotSupporting("__init__")
                /\ rejected' = TRUE
                /\ bf' = None
                /\ bpc' = "rejected"
           ELSE /\ raised' = NoError
                /\ rejected' = rejected
                /\ bf' = [kind |-> "DNN_Beamformer", ref_channel |-> rc,
                          nmask |-> nm, beamformer_type |-> bt,
                          eps |-> "1e-7", btaps |-> DefaultBtaps,
                          bdelay |-> DefaultBdelay]
                /\ bpc' = "idle"
    /\ UNCHANGED <<data, degenerate, last, masks, psd_speeches, psd_n, it,
                   enhanced, ncalls>>
    /\ UNCHANGED <<svars, fvars, lvars, mvars, cvars>>

\* the inputs and the outcome of the forward call that has ended
CallRecord ==
    [data |-> data, masks |-> masks, degenerate |-> degenerate,
     raised |-> raised, enhanced |-> enhanced]

\* forward, to the assert: the estimator returns some number of masks, at
\* most one of them all-zero somewhere
EstimateMasks ==
    /\ bpc = "idle"
    /\ ncalls < MaxCalls
    /\ \E d \in 1..MaxData, n \in 1..MaxMask, dg \in BOOLEAN :
        \E z \in 0..n :
            /\ data' = d
            /\ degenerate' = dg
            /\ masks' = [k \in 1..n |-> Mask(k, z)]
            /\ last' = IF /\ ncalls > 0
                          /\ data = d
                          /\ degenerate = dg
                          /\ masks = [k \in 1..n |-> Mask(k, z)]
                       THEN CallRecord ELSE None
            /\ IF MaskCountOk(n)
               THEN raised' = NoError /\ bpc' = "masked"
               ELSE raised' = AssertionError("forward") /\ bpc' = "raised"
    /\ psd_speeches' = <<>>
    /\ psd_n' = None
    /\ it' = 0
    /\ enhanced' = None
    /\ UNCHANGED <<arg_type, bf, rejected, ncalls>>
    /\ UNCHANGED <<svars, fvars, lvars, mvars, cvars>>

\* psd_speeches = [get_power_spectral_density_matrix(data, mask) for mask
\* in mask_speech]
speech_psds(d, speech) ==
    [k \in 1..Len(speech) |-> get_power_spectral_density_matrix(d, speech[k])]

\* forward, the covariances of either branch
BuildCovariances ==
    /\ bpc = "masked"
    /\ LET two == bf.nmask = 2
           speech == IF two THEN <<masks[1]>>
                     ELSE SubSeq(masks, 1, Len(masks) - 1)
           noise == IF two THEN NoiseCovariance2(data, masks)
                    ELSE NoiseCovarianceMulti(data, masks)
       IN  /\ psd_speeches' = speech_psds(data, speech)
           /\ IF noise.raises # NoError
              THEN /\ raised' = noise.raises
                   /\ psd_n' = None
                   /\ enhanced' = None
                   /\ bpc' = "raised"
              ELSE /\ raised' = NoError
                   /\ psd_n' = noise.psd_n
                   /\ enhanced' = IF two THEN None ELSE List(empty_list)
                   /\ bpc' = IF two THEN "single" ELSE "loop"
    /\ it' = 0
    /\ UNCHANGED <<arg_type, data, degenerate, last, bf, rejected, masks,
                   ncalls>>
    /\ UNCHANGED <<svars, fvars, lvars, mvars, cvars>>

\* forward, the 2-mask branch: one call of apply_beamforming
BeamformSingle ==
    /\ bpc = "single"
    /\ LET r == apply_beamforming(data, psd_speeches[1], psd_n.val,
                                  bf.beamformer_type)
       IN  IF r.raises # NoError
           THEN raised' = r.raises /\ enhanced' = None /\ bpc' = "raised"
           ELSE raised' = NoError /\ enhanced' = Tensor(r.enhanced)
                /\ bpc' = "return"
    /\ UNCHANGED <<arg_type, data, degenerate, last, bf, rejected, masks,
                   psd_speeches, psd_n, it, ncalls>>
    /\ UNCHANGED <<svars, fvars, lvars, mvars, cvars>>

\* the body of the multi-speaker loop up to the call of apply_beamforming,
\* for the 0-based i: psd_speeches.pop(i), then the call by type
beamform_speaker(d, psds, psdn, i) ==
    LET psd_speech == psds[i + 1]
        popped == Remove(psds, i + 1)
    IN  IF bf.beamformer_type = "mvdr"
        THEN apply_beamforming(d, psd_speech, sum(popped) (+) psdn.val,
                               bf.beamformer_type)
        ELSE IF bf.beamformer_type = "mpdr"
        THEN apply_beamforming(d, psd_speech, psdn.val, bf.beamformer_type)
        ELSE IF bf.beamformer_type = "wpd"
        THEN apply_beamforming(d, psd_speech, psdn.val[i + 1],
                               bf.beamformer_type)
        ELSE [raises |-> NotSupporting("forward")]

\* forward, one round of "for i in range(self.nmask - 1)"
BeamformSpeaker ==
    /\ bpc = "loop"
    /\ it < bf.nmask - 1
    /\ LET psd_speech == psd_speeches[it + 1]
           popped == Remove(psd_speeches, it + 1)
           r == beamform_speaker(data, psd_speeches, psd_n, it)
       IN  IF r.raises # NoError
           THEN /\ raised' = r.raises
                /\ psd_speeches' = popped
                /\ enhanced' = enhanced
                /\ it' = it
                /\ bpc' = "raised"
           ELSE /\ raised' = NoError
                /\ psd_speeches' = Insert(popped, it, psd_speech)
                /\ enhanced' = List(Append(enhanced.val, r.enhanced))
                /\ it' = it + 1
                /\ bpc' = "loop"
    /\ UNCHANGED <<arg_type, data, degenerate, last, bf, rejected, masks,
                   psd_n, ncalls>>
    /\ UNCHANGED <<svars, fvars, lvars, mvars, cvars>>

\* forward, "return enhanced, ilens, masks"
Return ==
    /\ \/ bpc = "return"
       \/ bpc = "loop" /\ it >= bf.nmask - 1
    /\ bpc' = "idle"
    /\ ncalls' = ncalls + 1
    /\ UNCHANGED <<arg_type, data, degenerate, last, bf, rejected, raised,
                   masks, psd_speeches, psd_n, it, enhanced>>
    /\ UNCHANGED <<svars, fvars, lvars, mvars, cvars>>

\* the exception leaves forward: nothing is returned, the instance lives on
Catch ==
    /\ bpc = "raised"
    /\ bpc' = "idle"
    /\ enhanced' = None
    /\ ncalls' = ncalls + 1
    /\ UNCHANGED <<arg_type, data, degenerate, last, bf, rejected, raised,
                   masks, psd_speeches, psd_n, it>>
    /\ UNCHANGED <<svars, fvars, lvars, mvars, cvars>>

\* the solver at rest while the beamformer runs
NoSolver ==
    /\ ref = [s \in 0..0 |-> [b \in 0..0 |-> 0]]
    /\ inf = [s \in 0..0 |-> [b \in 0..0 |-> 0]]
    /\ impl = "none"
    /\ perm = None
    /\ use_pit = TRUE
    /\ ret = None
    /\ prev = None
    /\ ncall = 0
    /\ first_min = TRUE
    /\ pc = "start"

InitBF == NoSolver /\ NoBeamformer /\ NoModel /\ NoOthers

NextBF ==
    \/ Construct
    \/ EstimateMasks
    \/ BuildCovariances
    \/ BeamformSingle
    \/ BeamformSpeaker
    \/ Return
    \/ Catch

SpecBF == InitBF /\ [][NextBF]_vars

----------------------------------------------------------------------------
(* The forward methods of ESPnetFrontendModel and ESPnetEnhancementModel:   *)
(* which loss terms a call computes and which references of the batch they  *)
(* read.  The networks are outside: a call is given the keys of its batch   *)
(* and the keys of the masks the network predicted.                         *)

\* the two model classes
ModelClasses == {"ESPnetFrontendModel", "ESPnetEnhancementModel"}

\* frontend.tf_factor: the weight of the TF-domain loss, in tenths
TfFactors == {0 - 5, 0, 5, 10}

\* enh_model.mask_type of a TF-domain network
EnhMaskTypes == {"PSM", "PSM_l1"}

\* the loss types the assert of ESPnetEnhancementModel.__init__ lets through
LossTypes ==
    {"mask_mse", "magnitude", "magnitude_l1", "spectrum", "spectrum_l1",
     "si_snr"}

\* the loss types some configuration may name
LossTypeArgs == LossTypes \cup {"snr"}

\* a dict with these keys
Dict(keys) == [kind |-> "dict", val |-> keys]

\* what the network may return as mask_pre
MaskOutputs ==
    {None} \cup {Dict({"spk1"} \cup ks) : ks \in SUBSET {"dereverb", "noise1"}}

\* the optional references a batch may hold
OptionalRefs == {"noise_ref1", "dereverb_ref"}

\* raise ValueError("No noise reference for training! ...")
NoNoiseReference(where) ==
    [at |-> where, err |-> "ValueError",
     msg |-> "No noise reference for training!"]

\* raise ValueError("No dereverberated reference for training! ...")
NoDereverbReference(where) ==
    [at |-> where, err |-> "ValueError",
     msg |-> "No dereverberated reference for training!"]

\* "noise1" in mask_pre, with mask_pre None
NoneNotIterable(where) ==
    [at |-> where, err |-> "TypeError",
     msg |-> "argument of type 'NoneType' is not iterable"]

\* torch.unbind(noise_ref, dim=1), with noise_ref None
UnbindOfNone(where) ==
    [at |-> where, err |-> "TypeError",
     msg |-> "unbind(): argument 'input' must be Tensor, not NoneType"]

\* speech_ref.dim(), with speech_ref the tuple torch.unbind returned
TupleHasNoDim(where) ==
    [at |-> where, err |-> "AttributeError",
     msg |-> "'tuple' object has no attribute 'dim'"]

\* torch.stack(noise_ref, dim=1)
stacked == Tensor("noise_ref")

\* torch.unbind(noise_ref, dim=1)
unbind(t) == List(<<t.val>>)

\* the branch of forward: the TF-domain losses, or the waveform loss alone
TfPath ==
    IF em.class = "ESPnetFrontendModel"
    THEN em.tf_factor > 0
    ELSE em.loss_type # "si_snr"

\* '_l1' in self.mask_type
has_l1(mt) == mt = "PSM_l1"

\* loss_func of the TF-domain loss of the speech
criterion ==
    IF em.class = "ESPnetFrontendModel" THEN "tf_mse_loss"
    ELSE IF em.loss_type \in {"magnitude", "magnitude_l1", "spectrum",
                              "spectrum_l1"}
    THEN IF has_l1(em.mask_type) THEN "tf_l1_loss" ELSE "tf_mse_loss"
    ELSE "tf_mse_loss"

\* loss and stats at the end of forward: the loss as the weight of each of
\* its terms in tenths, stats as the dict it is
returned ==
    IF em.class = "ESPnetFrontendModel"
    THEN IF em.tf_factor > 0
         THEN IF em.tf_factor = 10
              THEN [loss |-> [tf_loss |-> 10],
                    stats |-> [si_snr |-> None, tf_loss |-> Str("tf_loss"),
                               loss |-> Str("loss")]]
              ELSE [loss |-> [si_snr_loss |-> 10 - em.tf_factor,
                              tf_loss |-> em.tf_factor],
                    stats |-> [si_snr |-> Str("-si_snr_loss"),
                               tf_loss |-> Str("tf_loss"),
                               loss |-> Str("loss")]]
         ELSE [loss |-> [si_snr_loss |-> 10],
               stats |-> [si_snr |-> Str("-si_snr_loss"),
                          loss |-> Str("loss")]]
    ELSE IF TfPath
    THEN [loss |-> [tf_loss |-> 10],
          stats |-> [si_snr |-> IF em.training THEN None
                                ELSE Str("-si_snr_loss"),
                     loss |-> Str("loss"), tf_loss |-> Str("tf_loss")]]
    ELSE IF em.predict_noise
    THEN [loss |-> [si_snr_loss |-> 10, noise_loss |-> 10],
          stats |-> [si_snr |-> Str("-si_snr_loss"),
                     noise_snr |-> Str("-noise_loss"), loss |-> Str("loss")]]
    ELSE [loss |-> [si_snr_loss |-> 10],
          stats |-> [si_snr |-> Str("-si_snr_loss"), loss |-> Str("loss")]]

\* __init__ of either class
ConstructModel ==
    /\ fpc = "new"
    /\ \/ \E tf \in TfFactors :
            /\ em' = [class |-> "ESPnetFrontendModel", tf_factor |-> tf,
                      loss_type |-> "", mask_type |-> "",
                      predict_noise |-> FALSE, training |-> TRUE]
            /\ exc' = NoError
            /\ fpc' = "idle"
       \/ \E lt \in LossTypeArgs, mt \in EnhMaskTypes, pn \in BOOLEAN,
             tr \in BOOLEAN :
            IF lt \in LossTypes
            THEN /\ em' = [class |-> "ESPnetEnhancementModel",
                           tf_factor |-> 0, loss_type |-> lt,
                           mask_type |-> mt,
                           predict_noise |-> pn, training |-> tr]
                 /\ exc' = NoError
                 /\ fpc' = "idle"
            ELSE /\ em' = None
                 /\ exc' = AssertionError("__init__")
                 /\ fpc' = "new"
    /\ UNCHANGED <<kwargs, mask_pre, noise_ref, loss_terms, loss_func, fwd_out>>
    /\ UNCHANGED <<svars, bvars, lvars, mvars, cvars>>

\* forward, up to the call of the network: noise_ref is stacked from the
\* batch if it has "noise_ref1", else None
ForwardCall ==
    /\ fpc = "idle"
    /\ em # None
    /\ \E refs \in SUBSET OptionalRefs, out \in MaskOutputs :
         /\ kwargs' = {"speech_ref1"} \cup refs
         /\ noise_ref' = IF "noise_ref1" \in refs THEN stacked ELSE None
         /\ mask_pre' = IF TfPath THEN out ELSE None
    /\ loss_terms' = <<>>
    /\ exc' = NoError
    /\ loss_func' = ""
    /\ fwd_out' = None
    /\ fpc' = IF TfPath THEN "tf_loss" ELSE "rawwav"
    /\ UNCHANGED em
    /\ UNCHANGED <<svars, bvars, lvars, mvars, cvars>>

\* the TF-domain loss of the speech
TfLoss ==
    /\ fpc = "tf_loss"
    /\ IF em.class = "ESPnetFrontendModel"
       THEN /\ noise_ref' = IF noise_ref # None THEN unbind(noise_ref)
                            ELSE None
            /\ loss_terms' = Append(loss_terms, "tf_loss")
            /\ loss_func' = criterion
            /\ exc' = exc
            /\ fpc' = IF mask_pre = None THEN "si_snr" ELSE "dereverb"
       ELSE IF em.loss_type = "mask_mse" /\ mask_pre = None
       THEN /\ exc' = AssertionError("tf_loss")
            /\ fpc' = "raised"
            /\ UNCHANGED <<noise_ref, loss_terms, loss_func>>
       ELSE /\ loss_terms' = Append(loss_terms, "tf_loss")
            /\ loss_func' = criterion
            /\ fpc' = "noise"
            /\ UNCHANGED <<noise_ref, exc>>
    /\ UNCHANGED <<em, kwargs, mask_pre, fwd_out>>
    /\ UNCHANGED <<svars, bvars, lvars, mvars, cvars>>

\* ESPnetFrontendModel: the loss of the dereverberation mask
DereverbLoss ==
    /\ fpc = "dereverb"
    /\ IF "dereverb" \in mask_pre.val
       THEN IF "dereverb_ref" \notin kwargs
            THEN /\ exc' = NoDereverbReference("dereverb")
                 /\ fpc' = "raised"
                 /\ UNCHANGED loss_terms
            ELSE /\ loss_terms' = Append(loss_terms, "dereverb_loss")
                 /\ fpc' = "noise"
                 /\ UNCHANGED exc
       ELSE /\ fpc' = "noise"
            /\ UNCHANGED <<loss_terms, exc>>
    /\ UNCHANGED <<em, kwargs, mask_pre, noise_ref, loss_func, fwd_out>>
    /\ UNCHANGED <<svars, bvars, lvars, mvars, cvars>>

\* the loss of the noise mask, in the TF-domain branch of either class
NoiseLoss ==
    /\ fpc = "noise"
    /\ IF mask_pre = None
       THEN /\ exc' = NoneNotIterable("noise")
            /\ fpc' = "raised"
            /\ UNCHANGED <<noise_ref, loss_terms>>
       ELSE IF "noise1" \in mask_pre.val
       THEN IF noise_ref = None
            THEN /\ exc' = NoNoiseReference("noise")
                 /\ fpc' = "raised"
                 /\ UNCHANGED <<noise_ref, loss_terms>>
            ELSE /\ noise_ref' = IF em.class = "ESPnetEnhancementModel"
                                 THEN unbind(noise_ref) ELSE noise_ref
                 /\ loss_terms' = Append(loss_terms, "tf_noise_loss")
                 /\ fpc' = "si_snr"
                 /\ UNCHANGED exc
       ELSE /\ fpc' = "si_snr"
            /\ UNCHANGED <<noise_ref, loss_terms, exc>>
    /\ UNCHANGED <<em, kwargs, mask_pre, loss_func, fwd_out>>
    /\ UNCHANGED <<svars, bvars, lvars, mvars, cvars>>

\* the SI-SNR of the TF-domain branch: skipped with tf_factor == 1.0, and
\* by ESPnetEnhancementModel in training.  ESPnetFrontendModel first asks
\* speech_ref.dim() of the tuple its TF-domain branch has unbound.
SiSnrLoss ==
    /\ fpc = "si_snr"
    /\ LET skipped == IF em.class = "ESPnetFrontendModel"
                      THEN em.tf_factor = 10
                      ELSE em.training
       IN  IF skipped
           THEN /\ fpc' = "done"
                /\ UNCHANGED <<loss_terms, exc>>
           ELSE IF em.class = "ESPnetFrontendModel"
           THEN /\ exc' = TupleHasNoDim("si_snr")
                /\ fpc' = "raised"
                /\ UNCHANGED loss_terms
           ELSE /\ loss_terms' = Append(loss_terms, "si_snr_loss")
                /\ fpc' = "done"
                /\ UNCHANGED exc
    /\ UNCHANGED <<em, kwargs, mask_pre, noise_ref, loss_func, fwd_out>>
    /\ UNCHANGED <<svars, bvars, lvars, mvars, cvars>>

\* the waveform branch: forward_rawwav, the loss of the predicted noise if
\* enh_model.predict_noise, then the SI-SNR of the speech
RawWavLoss ==
    /\ fpc = "rawwav"
    /\ IF em.class = "ESPnetEnhancementModel" /\ em.predict_noise
       THEN IF noise_ref = None
            THEN /\ exc' = UnbindOfNone("noise")
                 /\ fpc' = "raised"
                 /\ UNCHANGED <<noise_ref, loss_terms>>
            ELSE /\ noise_ref' = unbind(noise_ref)
                 /\ loss_terms' = loss_terms \o <<"noise_loss", "si_snr_loss">>
                 /\ fpc' = "done"
                 /\ UNCHANGED exc
       ELSE /\ loss_terms' = Append(loss_terms, "si_snr_loss")
            /\ fpc' = "done"
            /\ UNCHANGED <<noise_ref, exc>>
    /\ UNCHANGED <<em, kwargs, mask_pre, loss_func, fwd_out>>
    /\ UNCHANGED <<svars, bvars, lvars, mvars, cvars>>

\* return loss, stats, weight
ReturnLoss ==
    /\ fpc = "done"
    /\ fwd_out' = returned
    /\ fpc' = "idle"
    /\ UNCHANGED <<em, kwargs, mask_pre, noise_ref, loss_terms, exc, loss_func>>
    /\ UNCHANGED <<svars, bvars, lvars, mvars, cvars>>

\* the exception leaves the model's forward
RaiseOut ==
    /\ fpc = "raised"
    /\ fpc' = "idle"
    /\ UNCHANGED <<em, kwargs, mask_pre, noise_ref, loss_terms, exc, loss_func,
                   fwd_out>>
    /\ UNCHANGED <<svars, bvars, lvars, mvars, cvars>>

InitFwd == NoSolver /\ NoBeamformer /\ NoModel /\ NoOthers

NextFwd ==
    \/ ConstructModel
    \/ ForwardCall
    \/ TfLoss
    \/ DereverbLoss
    \/ NoiseLoss
    \/ SiSnrLoss
    \/ RawWavLoss
    \/ ReturnLoss
    \/ RaiseOut

SpecFwd == InitFwd /\ [][NextFwd]_vars

----------------------------------------------------------------------------
(* long_seq_model: pad_waveform of LongSeqMasking on the shape of the       *)
(* waveform, and pad_segment, split_segment and merge_segment of RNN_base   *)
(* on a sequence with B = N = 1.                                            *)

\* the defaults of LongSeqMasking.__init__
DefaultWindowSize == 400
DefaultHopLength == 160

\* the windows, strides and waveform lengths pad_waveform is called with
Windows == (1..MaxWindow) \cup {DefaultWindowSize}

Strides == (1..MaxWindow) \cup {DefaultHopLength}

NSamples == (1..MaxSample) \cup {DefaultWindowSize}

\* the segment sizes and the sequences split_segment is called with
SegmentSizes == 2..(2 * MaxHalf)

Sequences == UNION {[1..n -> 1..MaxVal] : n \in 1..MaxLen}

\* torch.zeros(batch_size, dim, n)
zeros(n) == [k \in 1..n |-> 0]

\* x[a:b] of Python for a >= 0 and b < 0
slice(x, a, b) == SubSeq(x, a + 1, Len(x) + b)

\* LongSeqMasking.pad_waveform, on the number of samples
pad_waveform(n, w, st) ==
    LET r == w - ((st + (n % w)) % w)
        body == IF r > 0 THEN n + r ELSE n
    IN  [input |-> st + body + st, rest |-> r]

\* RNN_base.pad_segment
pad_segment(x, size) ==
    LET seq_len == Len(x)
        segment_stride == size \div 2
        r == IF seq_len % size # 0
             THEN size - ((segment_stride + (seq_len % size)) % size)
             ELSE 0
        body == IF r > 0 THEN x \o zeros(r) ELSE x
    IN  [input |-> zeros(segment_stride) \o body \o zeros(segment_stride),
         rest |-> r]

\* RNN_base.split_segment
split_segment(x, size) ==
    LET p == pad_segment(x, size)
        seq_len == Len(p.input)
        segment_stride == size \div 2
        num_segment == (seq_len - size) \div segment_stride + 1
    IN  [segments |->
            [i \in 1..num_segment |->
                SubSeq(p.input, (i - 1) * segment_stride + 1,
                       (i - 1) * segment_stride + size)],
         rest |-> p.rest]

\* a fault: a segment overwrites what the segments before it left
overwrite(old, new) == new

\* output[...] = output[...] + input[:, :, :, i]
accumulate(old, new) == old + new

\* the loop of merge_segment from segment i on
RECURSIVE add_segments(_, _, _, _)
add_segments(out, segs, segment_stride, i) ==
    IF i > Len(segs) THEN out
    ELSE LET lo == (i - 1) * segment_stride
             size == Len(segs[i])
         IN  add_segments(
                 [k \in 1..Len(out) |->
                     IF k > lo /\ k <= lo + size
                     THEN accumulate(out[k], segs[i][k - lo])
                     ELSE out[k]],
                 segs, segment_stride, i + 1)

\* RNN_base.merge_segment
merge_segment(segs, r) ==
    LET size == Len(segs[1])
        num_segment == Len(segs)
        segment_stride == size \div 2
        out == add_segments(zeros((num_segment - 1) * segment_stride + size),
                            segs, segment_stride, 1)
    IN  slice(out, segment_stride, 0 - r - segment_stride)

\* a call of pad_waveform
PadWaveform ==
    /\ lpc = "idle"
    /\ \E n \in NSamples, w \in Windows, st \in Strides :
         /\ nsample' = n
         /\ window' = w
         /\ stride' = st
         /\ padded' = pad_waveform(n, w, st).input
         /\ pad_rest' = pad_waveform(n, w, st).rest
    /\ input' = <<>>
    /\ segment_size' = 0
    /\ segments' = <<>>
    /\ seg_rest' = 0
    /\ output' = <<>>
    /\ lpc' = "pad_waveform"
    /\ UNCHANGED <<svars, bvars, fvars, mvars, cvars>>

\* a call of split_segment
SplitSegment ==
    /\ lpc = "idle"
    /\ \E x \in Sequences, size \in SegmentSizes :
         /\ input' = x
         /\ segment_size' = size
         /\ segments' = split_segment(x, size).segments
         /\ seg_rest' = split_segment(x, size).rest
    /\ output' = <<>>
    /\ nsample' = 0
    /\ window' = 0
    /\ stride' = 0
    /\ padded' = 0
    /\ pad_rest' = 0
    /\ lpc' = "split_segment"
    /\ UNCHANGED <<svars, bvars, fvars, mvars, cvars>>

\* a call of merge_segment on the segments and the rest split_segment gave
MergeSegment ==
    /\ lpc = "split_segment"
    /\ output' = merge_segment(segments, seg_rest)
    /\ lpc' = "merge_segment"
    /\ UNCHANGED <<nsample, window, stride, padded, pad_rest, input,
                   segment_size, segments, seg_rest>>
    /\ UNCHANGED <<svars, bvars, fvars, mvars, cvars>>

InitSeg == NoSolver /\ NoBeamformer /\ NoModel /\ NoOthers

NextSeg ==
    \/ PadWaveform
    \/ SplitSegment
    \/ MergeSegment

SpecSeg == InitSeg /\ [][NextSeg]_vars

----------------------------------------------------------------------------
(* _create_mask_label of both model classes, at one TF bin.  The spectra    *)
(* at the bin are real (the imaginary parts are zero), a mask value is a    *)
(* fraction, and eps is smaller than every difference of two values: it     *)
(* only keeps a division by zero from failing.  Rat(n, 0) with n # 0 is a   *)
(* quotient by eps alone, beyond every clamp bound.                         *)

\* the mask types each class asserts
MaskTypes(cls) ==
    IF cls = "ESPnetFrontendModel"
    THEN {"IBM", "IRM", "IAM", "PSM", "NPSM", "ICM"}
    ELSE {"IBM", "IRM", "IAM", "PSM", "NPSM", "PSM^2"}

\* the mask types some configuration may name
MaskTypeArgs == {"IBM", "IRM", "IAM", "PSM", "NPSM", "ICM", "PSM^2"}

\* the spectra at the bin
Amplitudes == (0 - MaxAmp)..MaxAmp

RefSpecs == UNION {[1..k -> Amplitudes] : k \in 1..MaxRefs}

\* a == b of Python on strings and lists: values of different types differ
py_eq(a, b) == a.kind = b.kind /\ a.val = b.val

\* abs(x)
abs(x) == IF x < 0 THEN 0 - x ELSE x

\* x / (abs(x) + eps) of a real x
sgn(x) == IF x < 0 THEN 0 - 1 ELSE IF x > 0 THEN 1 ELSE 0

\* n / (d + eps) for n >= 0 and d >= 0
div_eps(n, d) == IF n = 0 THEN Rat(0, 1) ELSE Rat(n, d)

\* mask * cos_theta for cos_theta in {-1, 0, 1}
times(x, c) == IF c = 0 THEN Rat(0, 1) ELSE Rat(x.num * c, x.den)

\* mask.clamp(min=lo, max=hi)
clamp(x, lo, hi) ==
    IF x.num <= lo * x.den THEN Rat(lo, 1)
    ELSE IF x.num >= hi * x.den THEN Rat(hi, 1)
    ELSE x

\* the sum of abs(n) over the references from the k-th on
RECURSIVE sum_abs(_, _)
sum_abs(refs, k) ==
    IF k > Len(refs) THEN 0 ELSE abs(refs[k]) + sum_abs(refs, k + 1)

\* a fault: abs(r) > abs(n)
flag_strict(r, n) == abs(r) > abs(n)

\* abs(r) >= abs(n)
flag(r, n) == abs(r) >= abs(n)

\* a fault: the test reads mask_type
clamps_to_unit_by_type(mt, labels) == py_eq(Str(mt), Str("NPSM"))

\* the test 'mask_label == "NPSM"' of the PSM branch: mask_label is the
\* list of the masks appended so far
clamps_to_unit(mt, labels) == py_eq(List(labels), Str("NPSM"))

\* the mask of reference r: the body of the loop "for r in ref_spec"
mask_of(mix, refs, mt, r, labels) ==
    IF mt = "IBM"
    THEN Rat(IF \A k \in 1..Len(refs) : flag(r, refs[k]) THEN 1 ELSE 0, 1)
    ELSE IF mt = "IRM"
    THEN div_eps(abs(r), sum_abs(refs, 1))
    ELSE IF mt = "IAM"
    THEN clamp(div_eps(abs(r), abs(mix)), 0, 1)
    ELSE IF mt = "PSM" \/ mt = "NPSM"
    THEN LET cos_theta == sgn(r) * sgn(mix)
             mask == times(div_eps(abs(r), abs(mix)), cos_theta)
         IN  IF clamps_to_unit(mt, labels)
             THEN clamp(mask, 0, 1)
             ELSE clamp(mask, 0 - 1, 1)
    ELSE IF mt = "ICM"
    THEN clamp(times(div_eps(abs(r), abs(mix)),
                     IF mix = 0 THEN sgn(r) ELSE sgn(r) * sgn(mix)),
               0 - 1, 1)
    ELSE LET cos_theta == sgn(r) * sgn(mix)
         IN  clamp(times(div_eps(r * r, mix * mix), cos_theta), 0 - 1, 1)

\* the loop "for r in ref_spec" from the k-th reference on
RECURSIVE label_from(_, _, _, _, _)
label_from(mix, refs, mt, k, labels) ==
    IF k > Len(refs) THEN labels
    ELSE label_from(mix, refs, mt, k + 1,
                    Append(labels, mask_of(mix, refs, mt, refs[k], labels)))

\* _create_mask_label(mix_spec, ref_spec, mask_type) of class cls
create_mask_label(cls, mix, refs, mt) ==
    IF mt \notin MaskTypes(cls)
    THEN [raises |-> AssertionError("_create_mask_label"), mask_label |-> None]
    ELSE [raises |-> NoError,
          mask_label |-> List(label_from(mix, refs, mt, 1, <<>>))]

\* a call of _create_mask_label
CreateMaskLabel ==
    /\ mpc = "idle"
    /\ \E cls \in ModelClasses, mt \in MaskTypeArgs, mix \in Amplitudes,
          refs \in RefSpecs :
         /\ mclass' = cls
         /\ mask_type' = mt
         /\ mix_spec' = mix
         /\ ref_spec' = refs
    /\ mask_label' = None
    /\ mpc' = "called"
    /\ UNCHANGED <<svars, bvars, fvars, lvars, cvars>>

\* it returns the labels, or its assert fails
ReturnMaskLabel ==
    /\ mpc = "called"
    /\ LET r == create_mask_label(mclass, mix_spec, ref_spec, mask_type)
       IN  IF r.raises # NoError
           THEN mask_label' = r.raises /\ mpc' = "raised"
           ELSE mask_label' = r.mask_label /\ mpc' = "returned"
    /\ UNCHANGED <<mclass, mask_type, mix_spec, ref_spec>>
    /\ UNCHANGED <<svars, bvars, fvars, lvars, cvars>>

InitMask == NoSolver /\ NoBeamformer /\ NoModel /\ NoOthers

NextMask ==
    \/ CreateMaskLabel
    \/ ReturnMaskLabel

SpecMask == InitMask /\ [][NextMask]_vars

----------------------------------------------------------------------------
(* The chain of _permutation_loss calls of one forward: which permutation   *)
(* each call is given and which it hands on.  The solver's variables hold   *)
(* the call made last; env holds the locals of forward and called the       *)
(* calls so far.                                                            *)

\* ctx_mode; "none" is the default None
CtxModes == {"none", "predict", "joint_train"}

\* the loss types of the chain: a TF-domain one and the waveform one (the
\* TF-domain types differ in the signals they compare, not in their calls)
ChainLossTypes == {"spectrum", "si_snr"}

\* the shapes of the chain: as many speakers as examples, and at least two
\* (torch accepts the stacked reference of the waveform branch of
\* ESPnetFrontendModel only then)
ChainShapes == {sh \in Shapes : sh[1] = sh[2] /\ sh[1] >= 2}

\* the hypothesis signals of the chain
ChainInfs(k, bsz) == [0..(k - 1) -> [0..(bsz - 1) -> 0..1]]

\* speech_ref as stacked, (Batch, num_spk, ...): indexed by the example
stacked_ref(r) ==
    [b \in 0..(BatchOf(r) - 1) |-> [s \in 0..(NumSpk(r) - 1) |-> r[s][b]]]

\* the branch of this forward
ChainTfPath ==
    IF job.impl = "frontend" THEN job.tf_factor > 0
    ELSE job.loss_type # "si_snr"

\* a fault: the separation loss is not given ctx_perm
no_ctx_perm(e) == None

\* perm=ctx_perm
ctx_perm_of(e) == e.ctx_perm

\* a fault: the SI-SNR is given the permutation of the noise masks
si_snr_perm_noise(e) == e.perm_n

\* perm=perm
si_snr_perm(e) == e.perm

\* one call of _permutation_loss of class c
Call(c, r, i, p, pit) ==
    /\ impl' = c
    /\ ref' = r
    /\ inf' = i
    /\ perm' = p
    /\ use_pit' = pit
    /\ ret' = PermutationLoss(c, r, i, p, pit)
    /\ ncall' = ncall + 1
    /\ pc' = "returned"
    /\ UNCHANGED <<prev, first_min>>

\* the record of the call in called
Made(term) == [term |-> term, perm |-> perm', ret |-> ret'.perm]

\* where forward goes after the TF-domain losses
AfterTfLosses ==
    IF job.impl = "frontend"
    THEN IF job.tf_factor = 10 THEN "end" ELSE "si_snr"
    ELSE IF job.training THEN "end" ELSE "si_snr"

\* forward of a model, up to its first loss
ForwardChain ==
    /\ job = None
    /\ \E sh \in ChainShapes :
         \/ \E tf \in TfFactors, n \in BOOLEAN :
              job' = [impl |-> "frontend", tf_factor |-> tf, loss_type |-> "",
                      use_pit |-> TRUE, ctx_mode |-> "none",
                      training |-> TRUE, noise |-> n, shape |-> sh]
         \/ \E lt \in ChainLossTypes, pit \in BOOLEAN, cm \in CtxModes,
               tr \in BOOLEAN, n \in BOOLEAN :
              job' = [impl |-> "enh", tf_factor |-> 0, loss_type |-> lt,
                      use_pit |-> pit, ctx_mode |-> cm, training |-> tr,
                      noise |-> n, shape |-> sh]
    /\ env' = [ctx_perm |-> None, perm |-> None, perm_n |-> None,
               next |-> "ctx"]
    /\ called' = <<>>
    /\ UNCHANGED <<svars, bvars, fvars, lvars, mvars>>

\* ctx_loss, ctx_perm = self._permutation_loss(ctx_given, ctx_pre, ctx_loss)
CallCtxLoss ==
    /\ job # None
    /\ env.next = "ctx"
    /\ IF job.ctx_mode = "joint_train"
       THEN /\ \E r \in RefLists(job.shape[1], job.shape[2]),
                  i \in ChainInfs(job.shape[1], job.shape[2]) :
                 Call("enh", r, i, None, TRUE)
            /\ env' = [env EXCEPT !.ctx_perm = ret'.perm,
                                  !.next = IF ChainTfPath THEN "tf" ELSE "wav"]
            /\ called' = Append(called, Made("ctx_loss"))
       ELSE /\ env' = [env EXCEPT !.next = IF ChainTfPath THEN "tf" ELSE "wav"]
            /\ UNCHANGED <<svars, called>>
    /\ UNCHANGED <<job, bvars, fvars, lvars, mvars>>

\* tf_loss, perm = self._permutation_loss(..., use_pit=self.use_pit,
\* perm=ctx_perm); ESPnetFrontendModel: self._permutation_loss(ref, pre, crit)
CallTfLoss ==
    /\ job # None
    /\ env.next = "tf"
    /\ \E r \in RefLists(job.shape[1], job.shape[2]),
          i \in ChainInfs(job.shape[1], job.shape[2]) :
         IF job.impl = "frontend"
         THEN Call("frontend", r, i, None, TRUE)
         ELSE Call("enh", r, i, ctx_perm_of(env), job.use_pit)
    /\ env' = [env EXCEPT !.perm = ret'.perm,
                          !.next = IF job.noise THEN "noise"
                                   ELSE AfterTfLosses]
    /\ called' = Append(called, Made("tf_loss"))
    /\ UNCHANGED <<job, bvars, fvars, lvars, mvars>>

\* tf_noise_loss, perm_n = self._permutation_loss(noise_mask_ref,
\* mask_noise_pre, self.tf_mse_loss[, use_pit=self.use_pit]), one noise type
CallTfNoiseLoss ==
    /\ job # None
    /\ env.next = "noise"
    /\ \E r \in RefLists(1, job.shape[2]), i \in ChainInfs(1, job.shape[2]) :
         IF job.impl = "frontend"
         THEN Call("frontend", r, i, None, TRUE)
         ELSE Call("enh", r, i, None, job.use_pit)
    /\ env' = [env EXCEPT !.perm_n = ret'.perm, !.next = AfterTfLosses]
    /\ called' = Append(called, Made("tf_noise_loss"))
    /\ UNCHANGED <<job, bvars, fvars, lvars, mvars>>

\* si_snr_loss, perm = self._permutation_loss(speech_ref, speech_pre,
\* self.si_snr_loss, perm=perm[, use_pit=self.use_pit]); in
\* ESPnetFrontendModel speech_ref.dim() fails before it
CallSiSnrLoss ==
    /\ job # None
    /\ env.next = "si_snr"
    /\ IF job.impl = "frontend"
       THEN /\ env' = [env EXCEPT !.next = "raised"]
            /\ UNCHANGED <<svars, called>>
       ELSE /\ \E r \in RefLists(job.shape[1], job.shape[2]),
                  i \in ChainInfs(job.shape[1], job.shape[2]) :
                 Call("enh", r, i, si_snr_perm(env), job.use_pit)
            /\ env' = [env EXCEPT !.perm = ret'.perm, !.next = "end"]
            /\ called' = Append(called, Made("si_snr_loss"))
    /\ UNCHANGED <<job, bvars, fvars, lvars, mvars>>

\* the waveform branch of ESPnetEnhancementModel with predict_noise:
\* noise_loss, _ = self._permutation_loss(noise_ref, predict_noise, crit)
CallNoiseLoss ==
    /\ job # None
    /\ env.next = "wav"
    /\ job.impl = "enh"
    /\ job.noise
    /\ \E r \in RefLists(1, job.shape[2]), i \in ChainInfs(1, job.shape[2]) :
         Call("enh", r, i, None, TRUE)
    /\ env' = [env EXCEPT !.next = "wav_speech"]
    /\ called' = Append(called, Made("noise_loss"))
    /\ UNCHANGED <<job, bvars, fvars, lvars, mvars>>

\* the waveform branch: si_snr_loss, perm = self._permutation_loss(
\* speech_ref, speech_pre, crit, use_pit=self.use_pit, perm=ctx_perm);
\* ESPnetFrontendModel passes the stacked speech_ref and no perm
CallWavLoss ==
    /\ job # None
    /\ \/ env.next = "wav_speech"
       \/ env.next = "wav" /\ ~(job.impl = "enh" /\ job.noise)
    /\ \E r \in RefLists(job.shape[1], job.shape[2]),
          i \in ChainInfs(job.shape[1], job.shape[2]) :
         IF job.impl = "frontend"
         THEN Call("frontend", stacked_ref(r), i, None, TRUE)
         ELSE Call("enh", r, i, ctx_perm_of(env), job.use_pit)
    /\ env' = [env EXCEPT !.perm = ret'.perm, !.next = "end"]
    /\ called' = Append(called, Made("si_snr_loss"))
    /\ UNCHANGED <<job, bvars, fvars, lvars, mvars>>

InitChain ==
    /\ ref = [s \in 0..0 |-> [b \in 0..0 |-> 0]]
    /\ inf = [s \in 0..0 |-> [b \in 0..0 |-> 0]]
    /\ impl = "none"
    /\ perm = None
    /\ use_pit = TRUE
    /\ ret = None
    /\ prev = None
    /\ ncall = 0
    /\ first_min \in BOOLEAN
    /\ pc = "start"
    /\ NoBeamformer
    /\ NoModel
    /\ NoOthers

NextChain ==
    \/ ForwardChain
    \/ CallCtxLoss
    \/ CallTfLoss
    \/ CallTfNoiseLoss
    \/ CallSiSnrLoss
    \/ CallNoiseLoss
    \/ CallWavLoss

SpecChain == InitChain /\ [][NextChain]_vars

----------------------------------------------------------------------------
(* What the claims speak of, computed from the inputs alone. *)

\* number of speakers and batch size of the current inputs
K == NumSpk(ref)

B == BatchOf(ref)

\* the bijections over the source indices {0..k-1}
BijectionsOver(k) ==
    {f \in [0..(k - 1) -> 0..(k - 1)] :
        \A a, b \in 0..(k - 1) : a # b => f[a] # f[b]}

\* the same, tabulated for the speaker counts of the model
BijectionTable == [k \in 1..(MaxSpk + 1) |-> BijectionsOver(k)]

Bijections(k) == BijectionTable[k]

IsBijection(f, k) ==
    /\ DOMAIN f = 0..(k - 1)
    /\ \A s \in 0..(k - 1) : f[s] \in 0..(k - 1)
    /\ \A a, b \in 0..(k - 1) : a # b => f[a] # f[b]

\* a tuple (t_0, ..., t_{k-1}) as the map s -> t_s
AsFun(tuple) == [s \in 0..(Len(tuple) - 1) |-> tuple[s + 1]]

Identity(k) == [s \in 0..(k - 1) |-> s]

\* sum_i criterion(ref_i, hyp_f(i))[b]; the mean over i is this over K
AssignCost(f, b) ==
    SumTo([s \in 0..(K - 1) |-> (ref[s][b] - inf[f[s]][b]) * (ref[s][b] - inf[f[s]][b])], K)

\* the least value of AssignCost(., b) over all bijections
MinCost(b) == SetMin({AssignCost(f, b) : f \in Bijections(K)})

\* the bijections that attain it
Winners(b) ==
    LET least == MinCost(b)
    IN  {f \in Bijections(K) : AssignCost(f, b) = least}

\* the bijection an index of the returned tensor stands for
Denoted(j) == AsFun(permutations(K)[j + 1])

\* loss is the fraction total / (K * B)
LossIs(loss, total) == loss.num * (K * B) = total * loss.den

\* a call that searched: no permutation supplied, PIT enabled
Searched == pc = "returned" /\ perm = None /\ use_pit

\* a call that was given a permutation
Supplied == pc = "returned" /\ perm # None

\* C1: called without a permutation (PIT enabled), the solver selects for
\* every batch element b a permutation with the minimum of
\* mean_i criterion(ref_i, hyp_pi(i))[b] over all K! permutations, and the
\* returned loss is the batch mean of these minima.
C1_SearchSelectsMinimum ==
    Searched =>
        /\ ret.perm.kind = "tensor"
        /\ DOMAIN ret.perm.val = 0..(B - 1)
        /\ \A b \in 0..(B - 1) :
              /\ ret.perm.val[b] \in 0..(Cardinality(Bijections(K)) - 1)
              /\ Denoted(ret.perm.val[b]) \in Winners(b)
        /\ LossIs(ret.loss, SumTo([b \in 0..(B - 1) |-> MinCost(b)], B))

\* a search over K >= 2 speakers and two examples whose winners differ and
\* are not the identity for one of them
C1_Witness ==
    /\ Searched
    /\ K >= 2
    /\ B >= 2
    /\ \E b, c \in 0..(B - 1) :
          /\ ret.perm.val[b] # ret.perm.val[c]
          /\ Identity(K) \notin Winners(b)

\* the loss returned is at most the batch-mean loss of the identity
AtMostIdentity ==
    ret.loss.num * (K * B)
        <= SumTo([b \in 0..(B - 1) |-> AssignCost(Identity(K), b)], B) * ret.loss.den

DenotedBy(p, b) ==
    IF p.kind = "tensor" THEN Denoted(p.val[b]) ELSE AsFun(p.val)

\* the loss returned is the batch mean of the loss of the supplied
\* permutation, and the permutation returned is the supplied one
SuppliedEvaluated ==
    /\ LossIs(ret.loss,
              SumTo([b \in 0..(B - 1) |-> AssignCost(DenotedBy(perm, b), b)], B))
    /\ \A b \in 0..(B - 1) : DenotedBy(ret.perm, b) = DenotedBy(perm, b)

\* C3 as stated: whenever a permutation is supplied, the loss is that of
\* the supplied permutation and the supplied permutation is returned.
C3_SuppliedAlwaysEvaluated ==
    Supplied => SuppliedEvaluated

\* C3 as amended: a supplied permutation is evaluated without a search, and
\* returned as it was given, when PIT is enabled (always so in
\* ESPnetFrontendModel); with use_pit=False it is ignored.
C3_SuppliedEvaluatedUnderPit ==
    (Supplied /\ use_pit) => (SuppliedEvaluated /\ ret.perm = perm)

\* a supplied permutation that is worse than the best one was evaluated
C3_Witness ==
    /\ Supplied
    /\ use_pit
    /\ \E b \in 0..(B - 1) : Denoted(perm.val[b]) \notin Winners(b)
    /\ ~LossIs(ret.loss, SumTo([b \in 0..(B - 1) |-> MinCost(b)], B))

\* C4: with use_pit=False there is no search: the loss is the batch mean of
\* mean_i criterion(ref_i, hyp_i) and the permutation is the identity list.
C4_NonPitIsIdentity ==
    (pc = "returned" /\ ~use_pit) =>
        /\ ret.perm = List(range(K))
        /\ AsFun(ret.perm.val) = Identity(K)
        /\ LossIs(ret.loss,
                  SumTo([b \in 0..(B - 1) |-> AssignCost(Identity(K), b)], B))

\* a non-PIT call on inputs where a search would have done better
C4_Witness ==
    /\ pc = "returned"
    /\ ~use_pit
    /\ impl = "enh"
    /\ \E b \in 0..(B - 1) : Identity(K) \notin Winners(b)

\* C5: for K = 1 the solver returns the identity for every batch element
\* and the loss is the batch mean of criterion(ref_0, hyp_0).
C5_SingleSpeaker ==
    (pc = "returned" /\ K = 1) =>
        /\ \/ /\ ret.perm.kind = "tensor"
              /\ DOMAIN ret.perm.val = 0..(B - 1)
              /\ \A b \in 0..(B - 1) : Denoted(ret.perm.val[b]) = Identity(1)
           \/ /\ ret.perm.kind = "list"
              /\ AsFun(ret.perm.val) = Identity(1)
        /\ ret.loss.num * B
             = SumTo([b \in 0..(B - 1) |->
                         (ref[0][b] - inf[0][b]) * (ref[0][b] - inf[0][b])], B)
                 * ret.loss.den

\* a single-speaker search over two examples with a non-zero loss
C5_Witness ==
    /\ Searched
    /\ K = 1
    /\ B >= 2
    /\ ret.loss.num > 0

\* C8: in every mode each batch element is given a bijection over the
\* source indices {0..K-1}: with PIT enabled (search or supplied
\* permutation) the solver returns one index per batch element, the
\* position of a bijection in the enumeration of the K! permutations; with
\* PIT disabled it returns the list range(K), applied to every element.
C8_BijectionPerElement ==
    pc = "returned" =>
        /\ IF use_pit
           THEN /\ ret.perm.kind = "tensor"
                /\ DOMAIN ret.perm.val = 0..(B - 1)
                /\ \A b \in 0..(B - 1) :
                      ret.perm.val[b] \in 0..(Len(permutations(K)) - 1)
           ELSE /\ ret.perm.kind = "list"
                /\ Len(ret.perm.val) = K
        /\ \A b \in 0..(B - 1) : IsBijection(DenotedBy(ret.perm, b), K)

\* a search over three speakers returned an index that is not the identity's
C8_Witness ==
    /\ Searched
    /\ K = 3
    /\ \E b \in 0..(B - 1) : ret.perm.val[b] > 0

----------------------------------------------------------------------------
(* Claims about two calls. *)

Reordered == pc = "compared" /\ prev.how = "reorder"

\* on example b the new winner, followed by sigma, is the old winner
ComposesToOld(b) ==
    \A s \in 0..(K - 1) :
        prev.sigma[Denoted(ret.perm.val[b])[s] + 1] = Denoted(prev.ret.perm.val[b])[s]

\* C6 as stated: a search on reordered hypotheses returns the same loss,
\* and for every batch element the permutation that is the original winner
\* composed with the reordering.
C6_ReorderGivesComposedWinner ==
    Reordered =>
        /\ RatEq(ret.loss, prev.ret.loss)
        /\ \A b \in 0..(B - 1) : ComposesToOld(b)

\* C6 as amended: a search on reordered hypotheses returns the same loss;
\* for every batch element whose minimum is attained by one permutation
\* only, the returned permutation followed by the reordering is the
\* original winner (when several permutations tie, the two searches may
\* return winners that do not correspond).
C6_ReorderKeepsLoss ==
    Reordered =>
        /\ RatEq(ret.loss, prev.ret.loss)
        /\ \A b \in 0..(B - 1) :
              Cardinality(Winners(b)) = 1 => ComposesToOld(b)

\* three hypotheses reordered by a 3-cycle (an order that differs from its
\* inverse), with a single winner that moved
C6_Witness ==
    /\ Reordered
    /\ K = 3
    /\ \E s \in 0..2 : prev.sigma[prev.sigma[s + 1] + 1] # s
    /\ \E b \in 0..(B - 1) :
          /\ Cardinality(Winners(b)) = 1
          /\ ret.perm.val[b] # prev.ret.perm.val[b]

Perturbed == pc = "compared" /\ prev.how = "perturb"

\* C9: the permutation selected for batch element e is the same in two
\* searches whose inputs agree on e, whatever the other elements hold.
C9_ElementIndependent ==
    Perturbed => ret.perm.val[prev.elem] = prev.perm_e

\* two searches that agree on e and differ on the rest of the batch, where
\* another element selected another permutation than e
C9_Witness ==
    /\ Perturbed
    /\ K >= 2
    /\ prev.moved
    /\ \E b \in 0..(B - 1) : ret.perm.val[b] # ret.perm.val[prev.elem]

----------------------------------------------------------------------------
(* Claims about DNN_Beamformer. *)

\* the three supported values the claim names
NamedTypes == {"mvdr", "mpdr", "wpd"}

\* a forward call of the instance has raised the dispatch error
DispatchErrorInForward == raised = NotSupporting("forward")

\* C10: a construction with a beamformer_type outside {mvdr, mpdr, wpd}
\* raises at construction and yields no instance; an instance that was
\* constructed never raises "Not supporting beamformer_type" in forward.
C10_RejectedAtConstruction ==
    /\ (arg_type \notin NamedTypes \cup {"none"}) =>
            /\ bf = None
            /\ bpc = "rejected"
            /\ raised = NotSupporting("__init__")
    /\ (bf # None) =>
            /\ bf.beamformer_type \in NamedTypes
            /\ ~DispatchErrorInForward

\* C10 happens: after a rejected construction a wpd instance with two
\* speakers was constructed, and a forward call went through every
\* dispatch on the type and returned
C10_Witness ==
    /\ rejected
    /\ bf # None
    /\ bf.beamformer_type = "wpd"
    /\ bf.nmask = 3
    /\ bpc = "idle"
    /\ enhanced # None
    /\ Len(enhanced.val) = 2

\* the enhanced signals built so far in this call, in the order built
EnhancedSeq ==
    IF enhanced = None THEN <<>>
    ELSE IF enhanced.kind = "tensor" THEN <<enhanced.val>>
    ELSE enhanced.val

\* a forward call of the instance has ended by returning
Returned == bf # None /\ bpc = "idle" /\ ncalls > 0 /\ raised = NoError

\* a covariance of one term
Term(op, k, d, w) ==
    SetToBag({[op |-> op, mask |-> k, data |-> d, weight |-> w]})

\* the speech PSD of the k-th mask on the signal of this call
SpeechPsd(k) ==
    Term("psd", k, data, IF masks[k].zero THEN "uniform" ELSE "mask")

\* the PSDs of the speech masks other than the i-th, added up
OtherSpeakers(i) ==
    LET others == (1..(Len(masks) - 1)) \ {i}
    IN  [t \in {[op |-> "psd", mask |-> j, data |-> data,
                 weight |-> IF masks[j].zero THEN "uniform" ELSE "mask"] :
                j \in others} |-> 1]

\* the covariances of this call have been built
CovariancesBuilt == bf # None /\ psd_n # None

\* C11: the interference covariance forward builds depends on the type
\* alone: for mvdr it is the PSD estimated from the noise mask, the last
\* mask; for mpdr it is the unweighted covariance of the observed signal,
\* which uses no mask; the same in the 2-mask and the multi-speaker branch.
C11_InterferenceByType ==
    CovariancesBuilt =>
        /\ (bf.beamformer_type = "mvdr") =>
              /\ psd_n.kind = "tensor"
              /\ Cardinality(BagToSet(psd_n.val)) = 1
              /\ \A t \in BagToSet(psd_n.val) :
                    /\ t.op = "psd"
                    /\ t.mask = Len(masks)
                    /\ t.data = data
                    /\ CopiesIn(t, psd_n.val) = 1
        /\ (bf.beamformer_type = "mpdr") =>
              psd_n = Tensor(Term("obs", 0, data, "uniform"))

\* an mpdr instance in the multi-speaker branch has built its covariances
C11_Witness ==
    /\ CovariancesBuilt
    /\ bf.beamformer_type = "mpdr"
    /\ bf.nmask >= 3
    /\ bpc = "loop"

\* the interference covariance of target i as forward built it
BuiltNoise(i) == IF psd_n.kind = "list" THEN psd_n.val[i] ELSE psd_n.val

\* forward is in, or has left, the multi-speaker loop with K > 1
MultiSpeaker == bf # None /\ bf.nmask >= 3 /\ enhanced # None

\* C12 as stated: with K > 1 speech masks and every type, the filter of
\* target i is designed with the PSD of speaker i as speech and the sum of
\* the PSDs of all other speakers plus the noise covariance as interference.
C12_OthersAddedForEveryType ==
    MultiSpeaker =>
        \A i \in 1..Len(EnhancedSeq) :
            /\ EnhancedSeq[i].psd_speech = SpeechPsd(i)
            /\ EnhancedSeq[i].psd_n = OtherSpeakers(i) (+) BuiltNoise(i)

\* C12 as amended: with K > 1 speech masks the filter of target i is
\* designed with the PSD of speaker i as speech; the interference is the sum
\* of the PSDs of all other speakers plus the noise PSD for mvdr, the
\* observed-signal covariance alone for mpdr, and the covariance weighted by
\* speaker i's inverse power alone for wpd.
C12_OthersAddedForMvdr ==
    MultiSpeaker =>
        \A i \in 1..Len(EnhancedSeq) :
            /\ EnhancedSeq[i].psd_speech = SpeechPsd(i)
            /\ (bf.beamformer_type = "mvdr") =>
                  EnhancedSeq[i].psd_n = OtherSpeakers(i) (+) psd_n.val
            /\ (bf.beamformer_type = "mpdr") =>
                  EnhancedSeq[i].psd_n = Term("obs", 0, data, "uniform")
            /\ (bf.beamformer_type = "wpd") =>
                  /\ EnhancedSeq[i].psd_n = psd_n.val[i]
                  /\ \A t \in BagToSet(EnhancedSeq[i].psd_n) :
                        t.op = "cov" /\ t.mask = i

\* an mvdr instance has designed the filters of two speakers
C12_Witness ==
    /\ MultiSpeaker
    /\ bf.beamformer_type = "mvdr"
    /\ Len(EnhancedSeq) = 2
    /\ Returned

\* C13 as stated: for every K >= 1 (nmask = K + 1) forward returns a list
\* of exactly K enhanced signals, in the order of the speech masks.
C13_ListOfKSignals ==
    (Returned /\ bf.nmask >= 2) =>
        /\ enhanced.kind = "list"
        /\ Len(enhanced.val) = bf.nmask - 1
        /\ \A k \in 1..Len(enhanced.val) :
              enhanced.val[k].psd_speech = SpeechPsd(k)

\* C13 as amended: for K >= 2 forward returns a list of exactly K enhanced
\* signals in the order of the speech masks; for K = 1 (nmask = 2) it
\* returns the one enhanced signal itself, not a list.
C13_ListOnlyForSeveral ==
    /\ (Returned /\ bf.nmask >= 3) =>
          /\ enhanced.kind = "list"
          /\ Len(enhanced.val) = bf.nmask - 1
          /\ \A k \in 1..Len(enhanced.val) :
                enhanced.val[k].psd_speech = SpeechPsd(k)
    /\ (Returned /\ bf.nmask = 2) =>
          /\ enhanced.kind = "tensor"
          /\ enhanced.val.psd_speech = SpeechPsd(1)

\* a call with two speech masks has returned its list
C13_Witness ==
    /\ Returned
    /\ bf.nmask = 3
    /\ enhanced.kind = "list"
    /\ Len(enhanced.val) = 2
    /\ bf.beamformer_type = "wpd"

\* the entries of a reference vector added up
RECURSIVE VecSum(_, _)
VecSum(vec, n) == IF n = 0 THEN 0 ELSE vec[n - 1] + VecSum(vec, n - 1)

\* C14: with ref_channel >= 0 the reference vector of every filter is
\* one-hot: as long as the channel count, 1 at ref_channel, 0 elsewhere,
\* summing to 1, and built from no PSD; with ref_channel < 0 the attention
\* selector yields the vector from the speech PSD and no one-hot is built.
C14_ReferenceVector ==
    bf # None =>
        \A i \in 1..Len(EnhancedSeq) :
            LET u == EnhancedSeq[i].u
            IN  /\ (bf.ref_channel >= 0) =>
                      /\ u.mode = "onehot"
                      /\ DOMAIN u.vec = 0..(MaxChan - 1)
                      /\ u.vec[bf.ref_channel] = 1
                      /\ \A ch \in (0..(MaxChan - 1)) \ {bf.ref_channel} :
                            u.vec[ch] = 0
                      /\ VecSum(u.vec, MaxChan) = 1
                      /\ u.psd = EmptyBag
                /\ (bf.ref_channel < 0) =>
                      /\ u.mode = "attention"
                      /\ u.psd = EnhancedSeq[i].psd_speech
                      /\ u.vec = <<>>

\* a call with the fixed reference channel 1 has returned a signal
C14_Witness ==
    /\ Returned
    /\ bf.ref_channel = 1
    /\ Len(EnhancedSeq) >= 1
    /\ EnhancedSeq[1].u.mode = "onehot"

\* C15 as stated: mvdr, mpdr and wpd differ only in the interference
\* covariance; every signal is produced by the same filter-design function
\* and the same filter-application function.
C15_SharedDesignAndApplication ==
    bf # None =>
        \A i \in 1..Len(EnhancedSeq) :
            /\ EnhancedSeq[i].design = "get_mvdr_vector"
            /\ EnhancedSeq[i].apply = "apply_beamforming_vector"

\* C15 as amended: mvdr and mpdr differ only in the interference
\* covariance and share one filter-design and one filter-application
\* function; wpd has a filter-design and a filter-application function of
\* its own, the latter taking the configured bdelay and btaps.
C15_SharedForMvdrAndMpdr ==
    bf # None =>
        \A i \in 1..Len(EnhancedSeq) :
            /\ (bf.beamformer_type \in {"mvdr", "mpdr"}) =>
                  /\ EnhancedSeq[i].design = "get_mvdr_vector"
                  /\ EnhancedSeq[i].apply = "apply_beamforming_vector"
            /\ (bf.beamformer_type = "wpd") =>
                  /\ EnhancedSeq[i].design = "get_WPD_filter_v2"
                  /\ EnhancedSeq[i].apply = "perform_WPD_filtering"
                  /\ EnhancedSeq[i].bdelay = bf.bdelay
                  /\ EnhancedSeq[i].btaps = bf.btaps

\* a wpd instance has returned a signal
C15_Witness ==
    /\ Returned
    /\ bf.beamformer_type = "wpd"
    /\ Len(EnhancedSeq) >= 1
    /\ bf.nmask = 2

\* the estimator gave a number of masks other than nmask
MaskCountMismatch == bf # None /\ masks # <<>> /\ Len(masks) # bf.nmask

\* C17: when the number of masks differs from nmask, forward fails before
\* any PSD, reference vector or filter is computed and returns nothing.
C17_MismatchFailsFirst ==
    MaskCountMismatch =>
        /\ raised = AssertionError("forward")
        /\ bpc \in {"raised", "idle"}
        /\ psd_speeches = <<>>
        /\ psd_n = None
        /\ enhanced = None

\* a call with too many masks has ended
C17_Witness ==
    /\ MaskCountMismatch
    /\ Len(masks) > bf.nmask
    /\ bpc = "idle"
    /\ ncalls > 0

\* C18: when filter design yields non-finite weights forward surfaces a
\* computation fault: no returned enhanced signal is non-finite.
C18_NonFiniteSurfaced ==
    Returned => \A i \in 1..Len(EnhancedSeq) : EnhancedSeq[i].finite

\* the covariances this call has built
CovariancesOfCall ==
    {psd_speeches[k] : k \in 1..Len(psd_speeches)}
    \cup (IF psd_n = None THEN {}
          ELSE IF psd_n.kind = "list"
          THEN {psd_n.val[k] : k \in 1..Len(psd_n.val)}
          ELSE {psd_n.val})
    \cup {EnhancedSeq[i].psd_speech : i \in 1..Len(EnhancedSeq)}
    \cup {EnhancedSeq[i].psd_n : i \in 1..Len(EnhancedSeq)}

\* the terms of the covariances this call has built
TermsOfCall == UNION {BagToSet(c) : c \in CovariancesOfCall}

\* some mask of this call is all-zero
SomeZeroMask == \E k \in 1..Len(masks) : masks[k].zero

Repeated ==
    /\ bf # None
    /\ bpc = "idle"
    /\ last # None
    /\ last.data = data
    /\ last.masks = masks
    /\ last.degenerate = degenerate

\* C20: across forward calls the configuration keeps its construction
\* values and no call stores what a later call reads: a call with the
\* inputs of the call before it has the outcome of the call before it.
C20_ConfigKeptAndPure ==
    /\ [][bf # None => bf' = bf]_vars
    /\ [](Repeated => (raised = last.raised /\ enhanced = last.enhanced))

\* two calls with the same inputs have both returned two signals
C20_Witness ==
    /\ Repeated
    /\ Returned
    /\ ncalls >= 2
    /\ last.raised = NoError
    /\ Len(EnhancedSeq) = 2

\* this call computes a loss term that reads the noise reference
NeedsNoiseRef ==
    /\ em # None
    /\ kwargs # {}
    /\ \/ TfPath /\ mask_pre # None /\ "noise1" \in mask_pre.val
       \/ ~TfPath /\ em.class = "ESPnetEnhancementModel" /\ em.predict_noise

\* the call is past its noise term, or has ended, without failing earlier
PastNoiseTerm ==
    /\ fpc \in {"si_snr", "done", "raised", "idle"}
    /\ exc.at \notin {"tf_loss", "dereverb"}

\* C16: a forward call that needs a noise reference for a loss term, on a
\* batch without "noise_ref1", fails with the explicit error that names the
\* missing noise reference, in every loss path of both model classes.
C16_MissingNoiseRefNamed ==
    (NeedsNoiseRef /\ "noise_ref1" \notin kwargs /\ PastNoiseTerm) =>
        exc = NoNoiseReference("noise")

\* the same, in the TF-domain branch alone
C16_NamedInTfPath ==
    (NeedsNoiseRef /\ TfPath /\ "noise_ref1" \notin kwargs /\ PastNoiseTerm) =>
        exc = NoNoiseReference("noise")

\* the PSDs of all speech masks of this call, in the order of the masks
AllSpeechPsds == [k \in 1..(Len(masks) - 1) |-> SpeechPsd(k)]

\* C25: in the multi-speaker loop, at the start of every iteration i the
\* list psd_speeches holds all K speaker PSDs in their original order; the
\* signal of iteration i was designed with speaker i's PSD as speech, each
\* speaker once, and the interference sum of mvdr ranged over exactly the
\* PSDs of the other speakers.
C25_LoopRestoresList ==
    (bf # None /\ bpc = "loop") =>
        /\ psd_speeches = AllSpeechPsds
        /\ Len(enhanced.val) = it
        /\ \A i \in 1..it :
              /\ enhanced.val[i].psd_speech = SpeechPsd(i)
              /\ (bf.beamformer_type = "mvdr") =>
                    enhanced.val[i].psd_n (-) psd_n.val = OtherSpeakers(i)

\* the loop is past its second iteration, with two speakers
C25_Witness ==
    /\ bf # None
    /\ bpc = "loop"
    /\ it = 2
    /\ Len(psd_speeches) = 2
    /\ bf.beamformer_type = "mvdr"

\* what the multi-speaker branch computes from the masks of this call when
\* there is one speech mask: its covariances and the signal of i = 0
MultiBranchOfOne ==
    LET speech == SubSeq(masks, 1, Len(masks) - 1)
        psds == speech_psds(data, speech)
        noise == NoiseCovarianceMulti(data, masks)
    IN  [psd_speeches |-> psds,
         psd_n |-> noise.psd_n,
         enhanced |-> beamform_speaker(data, psds, noise.psd_n, 0).enhanced]

\* the 2-mask branch of an mvdr or mpdr instance has built its signal
SingleBranchDone ==
    /\ bf # None
    /\ bf.nmask = 2
    /\ bf.beamformer_type \in {"mvdr", "mpdr"}
    /\ bpc \in {"return", "idle"}
    /\ raised = NoError
    /\ enhanced # None

\* C26: for mvdr and mpdr the 2-mask branch computes the speech PSD, the
\* interference PSD and the enhanced signal the multi-speaker branch would
\* compute for one speech mask; only the list around the signal differs.
C26_SingleEqualsMultiOfOne ==
    SingleBranchDone =>
        /\ psd_speeches = MultiBranchOfOne.psd_speeches
        /\ psd_n = MultiBranchOfOne.psd_n
        /\ enhanced.kind = "tensor"
        /\ enhanced.val = MultiBranchOfOne.enhanced

\* an mvdr instance with two masks has returned its signal
C26_Witness ==
    /\ SingleBranchDone
    /\ bf.beamformer_type = "mvdr"
    /\ bpc = "idle"
    /\ ~degenerate

\* C24: for every nsample >= 1 and every window and stride, pad_waveform
\* returns a padded length L = nsample + rest + 2 * stride with
\* (L - window) mod stride = 0, and 1 <= rest <= window.
C24_PaddingMatchesFraming ==
    (lpc = "pad_waveform") =>
        /\ padded = nsample + pad_rest + 2 * stride
        /\ (padded - window) % stride = 0
        /\ 1 <= pad_rest
        /\ pad_rest <= window

\* the same, where the stride divides the window
C24_MatchesWhenStrideDivides ==
    (lpc = "pad_waveform" /\ window % stride = 0) =>
        /\ padded = nsample + pad_rest + 2 * stride
        /\ (padded - window) % stride = 0
        /\ 1 <= pad_rest
        /\ pad_rest <= window

\* the number of segments that cover position k of the split sequence
Coverage(k) ==
    LET segment_stride == segment_size \div 2
        at == segment_stride + k
    IN  Cardinality({i \in 1..Len(segments) :
                        /\ (i - 1) * segment_stride < at
                        /\ at <= (i - 1) * segment_stride + segment_size})

\* C27: for every even segment_size >= 2 and every seq_len >= 1,
\* split_segment followed by merge_segment with the rest of split_segment
\* yields a sequence of the original length; every original position is
\* covered by exactly two segments, and the merged sequence is twice the
\* input.
C27_SplitMergeDoubles ==
    (lpc = "merge_segment" /\ segment_size % 2 = 0) =>
        /\ Len(output) = Len(input)
        /\ \A k \in 1..Len(input) :
              /\ Coverage(k) = 2
              /\ output[k] = 2 * input[k]

\* a sequence that needs padding has been split in segments of 4 and merged
C27_Witness ==
    /\ lpc = "merge_segment"
    /\ segment_size = 4
    /\ Len(input) = 5
    /\ seg_rest > 0
    /\ Len(segments) >= 3

\* _create_mask_label has returned the labels of this mask type
Labelled(mt) == mpc = "returned" /\ mask_type = mt

\* the labels of the mask type PSM on the inputs of this call
LabelsOfPsm == create_mask_label(mclass, mix_spec, ref_spec, "PSM").mask_label

\* C21: for mask_type NPSM the labels are clamped to [-1, 1], exactly as
\* for PSM, and never to [0, 1]: the label of a reference whose sign is
\* opposite to the mixture's stays negative, and the comparison that selects
\* the [0, 1] clamp is false at every turn of the loop.
C21_NpsmClampsAsPsm ==
    Labelled("NPSM") =>
        /\ mask_label = LabelsOfPsm
        /\ \A k \in 0..Len(ref_spec) :
              ~clamps_to_unit(mask_type, SubSeq(mask_label.val, 1, k))
        /\ \A k \in 1..Len(ref_spec) :
              /\ 0 - mask_label.val[k].den <= mask_label.val[k].num
              /\ mask_label.val[k].num <= mask_label.val[k].den
              /\ (ref_spec[k] * mix_spec < 0) => mask_label.val[k].num < 0

\* NPSM labels below zero have been returned: one inside [-1, 0), one
\* clamped at -1
C21_Witness ==
    /\ Labelled("NPSM")
    /\ Len(ref_spec) = 2
    /\ abs(ref_spec[1]) < abs(mix_spec)
    /\ mask_label.val[1] = Rat(0 - 1, 2)
    /\ mask_label.val[2] = Rat(0 - 1, 1)

\* the largest magnitude among the references of this call
LargestRef ==
    CHOOSE m \in {abs(ref_spec[k]) : k \in 1..Len(ref_spec)} :
        \A k \in 1..Len(ref_spec) : abs(ref_spec[k]) <= m

\* the references whose label is 1
Ones == {k \in 1..Len(ref_spec) : mask_label.val[k] = Rat(1, 1)}

\* C28: for mask_type IBM every label is 0 or 1; the label of reference r
\* is 1 exactly when |r| >= |n| for every reference n; so some reference
\* has label 1, and every reference of the largest magnitude has label 1.
C28_IbmLabels ==
    Labelled("IBM") =>
        /\ \A k \in 1..Len(ref_spec) :
              /\ mask_label.val[k] \in {Rat(0, 1), Rat(1, 1)}
              /\ (mask_label.val[k] = Rat(1, 1)) <=>
                    (\A j \in 1..Len(ref_spec) :
                        abs(ref_spec[k]) >= abs(ref_spec[j]))
        /\ Ones # {}
        /\ Ones = {k \in 1..Len(ref_spec) : abs(ref_spec[k]) = LargestRef}

\* two references of opposite sign tie and both have label 1
C28_Witness ==
    /\ Labelled("IBM")
    /\ Len(ref_spec) = 2
    /\ ref_spec[1] = 0 - ref_spec[2]
    /\ ref_spec[1] # 0
    /\ Cardinality(Ones) = 2

\* a forward call of ESPnetFrontendModel has ended, and not by the
\* ValueError of a reference the batch lacks
FrontendEnded ==
    /\ em # None
    /\ em.class = "ESPnetFrontendModel"
    /\ fpc = "idle"
    /\ kwargs # {}
    /\ exc.err # "ValueError"

\* the loss and stats tf_factor alone asks for
ComposedFromTfFactor ==
    IF em.tf_factor = 10
    THEN /\ fwd_out.loss = [tf_loss |-> 10]
         /\ fwd_out.stats.si_snr = None
         /\ \A k \in 1..Len(loss_terms) : loss_terms[k] # "si_snr_loss"
    ELSE IF em.tf_factor > 0
    THEN fwd_out.loss = [si_snr_loss |-> 10 - em.tf_factor,
                     tf_loss |-> em.tf_factor]
    ELSE /\ fwd_out.loss = [si_snr_loss |-> 10]
         /\ \A k \in 1..Len(loss_terms) : loss_terms[k] # "tf_loss"
         /\ "tf_loss" \notin DOMAIN fwd_out.stats

\* C29: ESPnetFrontendModel.forward composes its loss from tf_factor alone:
\* tf_factor == 1.0 gives loss = tf_loss, the si_snr statistic None and no
\* SI-SNR computed; any other tf_factor > 0 gives
\* loss = (1 - tf_factor) * si_snr_loss + tf_factor * tf_loss; tf_factor <= 0
\* gives loss = si_snr_loss, no TF loss computed and no tf_loss statistic.
C29_LossFromTfFactor ==
    FrontendEnded => (fwd_out # None /\ ComposedFromTfFactor)

\* the same of the calls that returned: with tf_factor 1.0 or <= 0
C29_ComposedWhenReturned ==
    (FrontendEnded /\ fwd_out # None) =>
        (ComposedFromTfFactor /\ em.tf_factor \in {10} \cup {tf \in TfFactors : tf <= 0})

\* ESPnetEnhancementModel has computed the TF-domain loss of the speech on
\* spectra
SpectraLoss(types) ==
    /\ em # None
    /\ em.class = "ESPnetEnhancementModel"
    /\ em.loss_type \in types
    /\ loss_func # ""

\* C23: in ESPnetEnhancementModel.forward the criterion follows loss_type:
\* magnitude_l1 and spectrum_l1 use tf_l1_loss, magnitude and spectrum use
\* tf_mse_loss, whatever the mask_type.
C23_CriterionFollowsLossType ==
    /\ SpectraLoss({"magnitude_l1", "spectrum_l1"}) => loss_func = "tf_l1_loss"
    /\ SpectraLoss({"magnitude", "spectrum"}) => loss_func = "tf_mse_loss"

\* what the code does: the criterion follows mask_type
C23_CriterionFollowsMaskType ==
    SpectraLoss({"magnitude", "magnitude_l1", "spectrum", "spectrum_l1"}) =>
        (loss_func = "tf_l1_loss" <=> has_l1(em.mask_type))

\* the term of the call made last in this forward
LastTerm == called[Len(called)].term

\* the call of this forward that computed the TF-domain loss of the speech
TfCall == called[CHOOSE k \in 1..Len(called) : called[k].term = "tf_loss"]

\* the call made last is the SI-SNR that follows the TF-domain losses
SiSnrAfterTf ==
    /\ job # None
    /\ ChainTfPath
    /\ called # <<>>
    /\ LastTerm = "si_snr_loss"

\* C22: within one forward call, the waveform SI-SNR loss that follows a
\* TF-domain speech loss is evaluated under exactly the permutation that TF
\* loss selected for each batch element: it is given that permutation, not
\* None and not the permutation of the noise masks, and its loss is the
\* loss of that permutation.
C22_SiSnrUnderTfPerm ==
    SiSnrAfterTf =>
        /\ perm # None
        /\ perm = TfCall.ret
        /\ SuppliedEvaluated
        /\ \A b \in 0..(B - 1) : DenotedBy(ret.perm, b) = DenotedBy(TfCall.ret, b)

\* an SI-SNR under the TF loss's permutation, which is not the one of the
\* noise masks and not the best one for the waveforms
C22_Witness ==
    /\ SiSnrAfterTf
    /\ job.use_pit
    /\ env.perm_n # None
    /\ \E b \in 0..(B - 1) : perm.val[b] # env.perm_n.val[b]
    /\ \E b \in 0..(B - 1) : Denoted(perm.val[b]) \notin Winners(b)
    /\ ~LossIs(ret.loss, SumTo([b \in 0..(B - 1) |-> MinCost(b)], B))

\* the call made last is the separation loss of ESPnetEnhancementModel with
\* use_pit: the TF-domain loss of the speech, or the SI-SNR of the waveform
\* branch
SeparationLoss ==
    /\ job # None
    /\ job.impl = "enh"
    /\ job.use_pit
    /\ called # <<>>
    /\ \/ ChainTfPath /\ LastTerm = "tf_loss"
       \/ ~ChainTfPath /\ LastTerm = "si_snr_loss"

\* the call that computed the context loss of this forward
CtxCall == called[1]

\* C30: in ESPnetEnhancementModel.forward with use_pit, under ctx_mode
\* 'joint_train' the separation loss is evaluated under the permutation the
\* context loss selected for each batch element, not under its own minimum;
\* in every other ctx_mode ctx_perm is None and the separation loss searches
\* its own permutation.
C30_SeparationUnderCtxPerm ==
    SeparationLoss =>
        IF job.ctx_mode = "joint_train"
        THEN /\ CtxCall.term = "ctx_loss"
             /\ env.ctx_perm = CtxCall.ret
             /\ perm = CtxCall.ret
             /\ ret.perm = CtxCall.ret
             /\ SuppliedEvaluated
        ELSE /\ env.ctx_perm = None
             /\ perm = None
             /\ \A b \in 0..(B - 1) : Denoted(ret.perm.val[b]) \in Winners(b)
             /\ LossIs(ret.loss, SumTo([b \in 0..(B - 1) |-> MinCost(b)], B))

\* a separation loss under the context's permutation that is above its own
\* minimum
C30_Witness ==
    /\ SeparationLoss
    /\ job.ctx_mode = "joint_train"
    /\ perm = CtxCall.ret
    /\ \E b \in 0..(B - 1) : Denoted(perm.val[b]) \notin Winners(b)
    /\ ~LossIs(ret.loss, SumTo([b \in 0..(B - 1) |-> MinCost(b)], B))

====
